---- MODULE Spec2Model ----
(***************************************************************************)
(* Badges, leaderboard, survey, questions and feedback of the             *)
(* AI-database-flask backend, as state machines over the stores the       *)
(* handlers read and write.                                                *)
(*                                                                         *)
(*   SpecLedger       BadgeService (sqlite user_badges table) and the      *)
(*                    admin user-badge endpoints (UserBadge junction       *)
(*                    table), one whole handler per step.                  *)
(*   SpecAward        POST /api/badges/award and POST /complete, which     *)
(*                    both go through User.add_badge.                      *)
(*   SpecKeys         the three award handlers on requests with known   *)
(*                    and unknown badge keys.                              *)
(*   SpecRace         two award requests whose database statements         *)
(*                    interleave.                                          *)
(*   SpecLeaderboard  score submission and the top-n query.                *)
(*   SpecTopTen       score submission on a table of ten and more plays.   *)
(*   SpecBoardAdmin   score submission and the admin edits of the table.   *)
(*   SpecSurvey       the three submit_survey handlers over                *)
(*                    survey_data.json.                                    *)
(*   SpecFrqs         opinions, get_recent_frqs and reset_survey.          *)
(*   SpecSeed         initSurveyResults, one step per commit.              *)
(*   SpecQuestions    Question.create and get_random_questions.            *)
(*   SpecFeedback     submit_feedback and the admin create endpoint.       *)
(*   SpecFeedbackAdmin  the admin create and update of feedback rows.      *)
(*   SpecUpstream     GeminiAPI._Ask.post and test_prompt on every         *)
(*                    outcome of the upstream call.                        *)
(*   SpecPrompt       test_prompt on present, blank and absent prompts.    *)
(*   SpecFiles        the question files of the game, math and science     *)
(*                    endpoints.                                           *)
(*   SpecSeedData     seed_data, reset_tables and the deletes between.     *)
(*   SpecRights       owner-only and token-guarded endpoints.              *)
(*   SpecPrefs        update_ai_preferences_by_user requests whose         *)
(*                    queries and commits interleave.                      *)
(*   SpecConcurrentSurvey  submit_survey requests whose load_data and      *)
(*                    save_data interleave.                                *)
(*   SpecProgress     BadgeService.award_badge and get_user_progress.      *)
(***************************************************************************)
EXTENDS Naturals, Integers, Sequences, FiniteSets, TLC

VARIABLES
    user_badges,          \* BadgeService: rows of the sqlite table user_badges, per (username, badge_id)
    junction,             \* rows of the UserBadge junction table, per (user, badge)
    badges,               \* User.badges, the badge list kept on the user record, per (user, badge)
    completions,          \* badge_data.json: data['completions'][uid], records per (uid, badge_id)
    posted,               \* history: the (user, badge_id) pairs POST /api/badges/award has handled
    resp,                 \* the answer of the last handled request
    pc,                   \* SpecRace: where each in-flight request stands
    req,                  \* SpecRace: the request each worker handles
    snap,                 \* SpecRace: what a worker last read from the database
    rresp,                \* SpecRace: each worker's answer
    leaderboard,          \* rows of the leaderboard table, in insertion (id) order
    clock,                \* datetime.utcnow() as seen by the last insert
    ranking,              \* the ids of the rows in the order the engine's ORDER BY returns them
    top_result,           \* the last answer of get_top_scores since the last write
    survey_data,          \* survey_data.json: the tallies and the opinions, newest first
    submitted,            \* history: the opinions stored since the last reset, oldest first
    recent_frqs,          \* the last answer of get_recent_frqs since the last write
    posted_form,          \* the body of the last survey submission
    survey_responses,     \* committed rows of the survey_responses table
    ai_tool_preferences,  \* committed rows of the ai_tool_preferences table
    seed,                 \* where a running initSurveyResults stands
    questions,            \* rows of the questions table
    q_result,             \* the last answer of get_random_questions with its arguments
    submodule_feedback,   \* rows of the submodule_feedback table
    feedback_in,          \* the body of the last feedback submission
    prompt_data,          \* prompt_data.json: the prompt history and its counters
    prompt_in,            \* the body of the last prompt request and what the text-generation call did
    question_files,       \* math_questions.json, science_questions.json, game_questions.json: the questions, or no file
    cs_prompts,           \* rows of the cs_prompts table
    access_in,            \* the caller's role and the target of the last rights-checked request
    shown,                \* the (uid, badge) pairs the last answer disclosed
    pref_req,             \* where each in-flight update_ai_preferences_by_user stands
    survey_req,           \* where each in-flight submit_survey stands: its form and the data it loaded
    progress              \* what the last BadgeService.get_user_progress returned, or that it raised

vars == <<user_badges, junction, badges, completions, posted, resp,
          pc, req, snap, rresp, leaderboard, clock, ranking, top_result,
          survey_data, submitted, recent_frqs, posted_form,
          survey_responses, ai_tool_preferences, seed, questions, q_result,
          submodule_feedback, feedback_in,
          prompt_data, prompt_in,
          question_files,
          cs_prompts, access_in, shown,
          pref_req,
          survey_req,
          progress>>

ledgerVars == <<user_badges, junction>>
awardVars == <<badges, completions, posted>>
raceVars == <<pc, req, snap, rresp>>
boardVars == <<leaderboard, clock, ranking, top_result>>
surveyVars == <<survey_data, submitted, recent_frqs>>
dbVars == <<survey_responses, ai_tool_preferences, seed>>
qVars == <<questions, q_result>>
fbVars == <<submodule_feedback, feedback_in>>
promptVars == <<prompt_data, prompt_in>>
fileVars == <<question_files>>
csVars == <<cs_prompts, access_in, shown>>
prefVars == <<pref_req>>
loadVars == <<survey_req>>
progressVars == <<progress>>
extVars == <<surveyVars, posted_form, dbVars, qVars, fbVars, promptVars, fileVars, csVars, prefVars, loadVars, progressVars>>

----------------------------------------------------------------------------
(* Badge catalog *)

DELIGHTFUL == "delightful_data_scientist"
PERFECT == "perfect_prompt_engineer"
PRODIGY == "prodigy_problem_solver"
MASTER == "responsible_ai_master"
GENIUS == "super_smart_genius"
INSTRUCTOR == "intelligent_instructor"
SURVEYOR == "sensational_surveyor"

\* [b['id'] for b in BADGES.values()]
BADGES == {DELIGHTFUL, PERFECT, PRODIGY, MASTER, GENIUS, INSTRUCTOR, SURVEYOR}

\* the keys of BADGE_DEFINITIONS in api/badge.py
BADGE_DEFINITIONS == {DELIGHTFUL, PERFECT, PRODIGY, MASTER, GENIUS, INSTRUCTOR, SURVEYOR}

\* the rows of the Badge table the admin endpoints look badge keys up in
BadgeTable == BADGE_DEFINITIONS

\* required_badges of _check_quest_completion
required_badges == {DELIGHTFUL, PERFECT, PRODIGY}

Users == {"alice", "bob"}

\* what a request may carry as badge id: catalog keys, an unknown key, no key
BOGUS == "bogus_badge"
NOKEY == ""
Keys == BADGES \cup {BOGUS, NOKEY}
ServiceInputs == {DELIGHTFUL, PERFECT, PRODIGY, MASTER, BOGUS}
AdminInputs == {DELIGHTFUL, BOGUS, NOKEY}
AdminUids == Users \cup {"ghost"}
AwardInputs == {DELIGHTFUL, PRODIGY, MASTER, BOGUS, NOKEY}
KeyInputs == {DELIGHTFUL, BOGUS, NOKEY}

Pairs == Users \X Keys
NoRows == [p \in Pairs |-> 0]

----------------------------------------------------------------------------
(* Answers *)

\* status 0: a plain return value of a service method, no HTTP status
Answer(op, u, b, status, success, error, new_badge) ==
    [op |-> op, user |-> u, badge |-> b, status |-> status,
     success |-> success, error |-> error, new_badge |-> new_badge]

NoAnswer == Answer("none", "", "", 0, "absent", "", "absent")

----------------------------------------------------------------------------
(* BadgeService: hacks/ai/badge_service.py *)

\* UNIQUE(username, badge_id): an INSERT of a pair the table holds raises IntegrityError
IntegrityError_off(tbl, u, b) == FALSE
IntegrityError(tbl, u, b) == tbl[<<u, b>>] >= 1

\* INSERT INTO user_badges (username, badge_id) VALUES (?, ?); commit
InsertRow(tbl, u, b) == [tbl EXCEPT ![<<u, b>>] = @ + 1]

\* SELECT badge_id ... WHERE username = ?, kept when BADGES knows the id
get_user_badges(tbl, u) == {b \in BADGES : tbl[<<u, b>>] >= 1}

\* the rest of _check_quest_completion, given the ids it has read
quest_insert_skipped(tbl, u, user_badge_ids) == tbl
quest_insert(tbl, u, user_badge_ids) ==
    IF required_badges \subseteq user_badge_ids /\ MASTER \notin user_badge_ids
    THEN IF IntegrityError(tbl, u, MASTER) THEN tbl ELSE InsertRow(tbl, u, MASTER)
    ELSE tbl

_check_quest_completion(tbl, u) == quest_insert(tbl, u, get_user_badges(tbl, u))

SvcInvalid(u, b) == Answer("award_badge", u, b, 0, "False", "Invalid badge ID", "absent")
SvcAlready(u, b) == Answer("award_badge", u, b, 0, "False", "Badge already earned", "absent")
SvcAwarded(u, b) == Answer("award_badge", u, b, 0, "True", "", "absent")

\* BadgeService.award_badge(username, badge_id): the table after it and its answer
award_badge_unvalidated(tbl, u, b) ==
    IF IntegrityError(tbl, u, b) THEN [tbl |-> tbl, ans |-> SvcAlready(u, b)]
    ELSE [tbl |-> _check_quest_completion(InsertRow(tbl, u, b), u),
          ans |-> SvcAwarded(u, b)]
award_badge(tbl, u, b) ==
    IF b \notin BADGES THEN [tbl |-> tbl, ans |-> SvcInvalid(u, b)]
    ELSE IF IntegrityError(tbl, u, b) THEN [tbl |-> tbl, ans |-> SvcAlready(u, b)]
    ELSE [tbl |-> _check_quest_completion(InsertRow(tbl, u, b), u),
          ans |-> SvcAwarded(u, b)]

ServiceAward(inputs) ==
    \E u \in Users, b \in inputs :
        LET r == award_badge(user_badges, u, b) IN
        /\ user_badges' = r.tbl
        /\ resp' = r.ans
        /\ UNCHANGED <<junction, awardVars, raceVars, boardVars, extVars>>

service_award_badge == ServiceAward(ServiceInputs)

----------------------------------------------------------------------------
(* Admin user-badge endpoints: api/admin_api.py *)

\* User.query.filter_by(_uid=uid).first()
UserExists(uid) == uid \in Users

\* Badge.query.filter_by(_badge_id=badge_key).first()
BadgeExists(badge_key) == badge_key \in BadgeTable

\* UserBadge.query.filter_by(user_id=..., badge_id=...).first()
MappingExists(tbl, u, b) == tbl[<<u, b>>] >= 1

\* UserBadge.create(): add and commit; the (user_id, badge_id) key rejects a
\* second row for the pair, the session is rolled back and None is returned
UserBadge_create(tbl, u, b) ==
    IF tbl[<<u, b>>] >= 1
    THEN [tbl |-> tbl, created |-> FALSE]
    ELSE [tbl |-> [tbl EXCEPT ![<<u, b>>] = @ + 1], created |-> TRUE]

\* mapping.delete()
UserBadge_delete(tbl, u, b) == [tbl EXCEPT ![<<u, b>>] = @ - 1]

AdmRequired(op, u, b) ==
    Answer(op, u, b, 400, "absent", "badge_id and (uid or user_id) required", "absent")
AdmNoUser(op, u, b) == Answer(op, u, b, 404, "absent", "User not found", "absent")
AdmNoBadge(op, u, b) == Answer(op, u, b, 404, "absent", "Badge not found", "absent")
AdmExists(u, b) == Answer("create_user_badge", u, b, 200, "True", "", "absent")
AdmCreated(u, b) == Answer("create_user_badge", u, b, 201, "True", "", "absent")
AdmFailed(u, b) ==
    Answer("create_user_badge", u, b, 500, "absent", "Failed to create mapping", "absent")
AdmDeleted(u, b) == Answer("delete_user_badge", u, b, 200, "True", "", "absent")

\* the checks both endpoints make before they touch the junction table:
\* the answer that ends the request, or NoAnswer to go on
admin_lookup(op, uid, badge_key) ==
    IF badge_key = NOKEY \/ uid = NOKEY THEN AdmRequired(op, uid, badge_key)
    ELSE IF ~UserExists(uid) THEN AdmNoUser(op, uid, badge_key)
    ELSE IF ~BadgeExists(badge_key) THEN AdmNoBadge(op, uid, badge_key)
    ELSE NoAnswer

\* the insert of create_user_badge once `exists` was read as None
admin_insert(tbl, uid, badge_key) ==
    LET c == UserBadge_create(tbl, uid, badge_key) IN
    [tbl |-> c.tbl,
     ans |-> IF c.created THEN AdmCreated(uid, badge_key) ELSE AdmFailed(uid, badge_key)]

\* POST /api/admin/user-badges
create_user_badge_body(tbl, uid, badge_key) ==
    LET early == admin_lookup("create_user_badge", uid, badge_key) IN
    IF early # NoAnswer THEN [tbl |-> tbl, ans |-> early]
    ELSE IF MappingExists(tbl, uid, badge_key)
    THEN [tbl |-> tbl, ans |-> AdmExists(uid, badge_key)]
    ELSE admin_insert(tbl, uid, badge_key)

CreateUserBadge(inputs) ==
    \E uid \in AdminUids, badge_key \in inputs :
        LET r == create_user_badge_body(junction, uid, badge_key) IN
        /\ junction' = r.tbl
        /\ resp' = r.ans
        /\ UNCHANGED <<user_badges, awardVars, raceVars, boardVars, extVars>>

create_user_badge == CreateUserBadge(AdminInputs)

\* DELETE /api/admin/user-badges
delete_user_badge_body(tbl, uid, badge_key) ==
    LET early == admin_lookup("delete_user_badge", uid, badge_key) IN
    IF early # NoAnswer THEN [tbl |-> tbl, ans |-> early]
    ELSE IF ~MappingExists(tbl, uid, badge_key)
    THEN [tbl |-> tbl, ans |-> AdmDeleted(uid, badge_key)]
    ELSE [tbl |-> UserBadge_delete(tbl, uid, badge_key), ans |-> AdmDeleted(uid, badge_key)]

delete_user_badge ==
    \E uid \in AdminUids, badge_key \in AdminInputs :
        LET r == delete_user_badge_body(junction, uid, badge_key) IN
        /\ junction' = r.tbl
        /\ resp' = r.ans
        /\ UNCHANGED <<user_badges, awardVars, raceVars, boardVars, extVars>>

----------------------------------------------------------------------------
(* POST /api/badges/award (api/badge.py), POST /complete (hacks/ai/submodule3.py) *)

\* User.add_badge(badge_id): appends the id to the user's badge list unless the
\* list holds it; returns whether it was newly added
add_badge(bs, u, b) ==
    IF bs[<<u, b>>] >= 1
    THEN [badges |-> bs, was_awarded |-> FALSE]
    ELSE [badges |-> [bs EXCEPT ![<<u, b>>] = @ + 1], was_awarded |-> TRUE]

\* data['completions'][uid].append({...}); save_badge_data(data)
track_always(data, u, b, was_awarded) == [data EXCEPT ![<<u, b>>] = @ + 1]
track_completion(data, u, b, was_awarded) ==
    IF was_awarded THEN [data EXCEPT ![<<u, b>>] = @ + 1] ELSE data

ApiRequired(u, b) == Answer("api_award", u, b, 400, "absent", "badge_id is required", "absent")
ApiInvalid(u, b) == Answer("api_award", u, b, 400, "absent", "Invalid badge_id", "absent")
ApiAwarded(u, b) == Answer("api_award", u, b, 200, "True", "", "True")
ApiAlready(u, b) == Answer("api_award", u, b, 200, "True", "", "False")

\* award_badge of api/badge.py for current_user u and body {'badge_id': b}
ApiAward(inputs) ==
    \E u \in Users, b \in inputs :
        /\ IF b = NOKEY
           THEN /\ resp' = ApiRequired(u, b)
                /\ UNCHANGED awardVars
           ELSE IF b \notin BADGE_DEFINITIONS
           THEN /\ resp' = ApiInvalid(u, b)
                /\ UNCHANGED awardVars
           ELSE LET r == add_badge(badges, u, b) IN
                /\ badges' = r.badges
                /\ completions' = track_completion(completions, u, b, r.was_awarded)
                /\ posted' = posted \cup {<<u, b>>}
                /\ resp' = IF r.was_awarded THEN ApiAwarded(u, b) ELSE ApiAlready(u, b)
        /\ UNCHANGED <<ledgerVars, raceVars, boardVars, extVars>>

api_award_badge == ApiAward(AwardInputs)

\* complete_submodule of hacks/ai/submodule3.py for current_user u
complete_submodule ==
    \E u \in Users :
        LET r == add_badge(badges, u, PRODIGY) IN
        /\ badges' = r.badges
        /\ resp' = Answer("complete_submodule", u, PRODIGY, 200, "True", "",
                          IF r.was_awarded THEN "True" ELSE "False")
        /\ UNCHANGED <<completions, posted, ledgerVars, raceVars, boardVars, extVars>>

----------------------------------------------------------------------------
(* Leaderboard: model/leaderboard.py, hacks/ai/submodule3.py, api/admin_api.py *)

MaxRows == 2
MaxLimit == 1
TOP_N == 10
NULL == -1
ANON == "anonymous"

Min(a, b) == IF a < b THEN a ELSE b

\* the JSON bodies a score request may carry: two plays, a null score, no score
Plays == {[has_score |-> TRUE, score |-> 100, correctAnswers |-> 10],
          [has_score |-> TRUE, score |-> 80, correctAnswers |-> 8],
          [has_score |-> TRUE, score |-> NULL, correctAnswers |-> 5],
          [has_score |-> FALSE, score |-> NULL, correctAnswers |-> 5]}

NoQuery == [limit |-> -1, rows |-> <<>>]

\* ORDER BY _score DESC, _timestamp ASC: a is placed before b
order_by_ascending(a, b) ==
    a.score < b.score \/ (a.score = b.score /\ a.timestamp < b.timestamp)
order_by(a, b) ==
    a.score > b.score \/ (a.score = b.score /\ a.timestamp < b.timestamp)

RowById(rows, id) == CHOOSE r \in {rows[i] : i \in 1..Len(rows)} : r.id = id

\* the orderings that place row r somewhere in the ordering f of other rows
\* without breaking order_by
Placements(rows, f, r) ==
    {[i \in 1..(Len(f) + 1) |-> IF i < p THEN f[i] ELSE IF i = p THEN r.id ELSE f[i - 1]] :
        p \in {q \in 1..(Len(f) + 1) :
                  /\ \A i \in 1..(q - 1) : ~order_by(r, RowById(rows, f[i]))
                  /\ \A i \in q..Len(f) : ~order_by(RowById(rows, f[i]), r)}}

RECURSIVE RankingsOf(_, _)
RankingsOf(rows, k) ==
    IF k = 0 THEN {<<>>}
    ELSE UNION {Placements(rows, f, rows[k]) : f \in RankingsOf(rows, k - 1)}

\* the answers an engine may give to the ORDER BY over `rows`: every ordering
\* of all the rows that respects order_by; rows equal on both keys come in any order
Rankings(rows) == RankingsOf(rows, Len(rows))

\* LeaderboardEntry.get_top_scores(limit): the first `limit` rows of the ordering
get_top_scores(rows, order, limit) ==
    [i \in 1..Min(limit, Len(order)) |-> RowById(rows, order[i])]

\* the primary key the table gives the next row
NextId(rows) == IF rows = <<>> THEN 1 ELSE rows[Len(rows)].id + 1

\* the table has room for the row a request would insert (the model's bound)
Room(u, play, now, cap) ==
    (u # ANON /\ play.has_score /\ play.score # NULL)
        => (Len(leaderboard) < cap /\ NextId(leaderboard) <= cap /\ now <= cap)

\* LeaderboardEntry.create(): add and commit; a NULL in a nullable=False column
\* raises IntegrityError, the session is rolled back and None is returned
create(rows, user_id, play, now) ==
    IF play.score = NULL THEN [rows |-> rows, created |-> FALSE]
    ELSE [rows |-> Append(rows, [id |-> NextId(rows), user_id |-> user_id,
                                 score |-> play.score,
                                 correct_answers |-> play.correctAnswers,
                                 timestamp |-> now]),
          created |-> TRUE]

BoardAnswer(op, u, status, error, new_badge) ==
    Answer(op, u, "", status, IF status = 200 THEN "True" ELSE "absent", error, new_badge)

\* what a write leaves behind: the table, the time and the engine's ordering of it
Written(rows, now) ==
    /\ leaderboard' = rows
    /\ clock' = now
    /\ ranking' \in Rankings(rows)
    /\ top_result' = NoQuery

\* save_score of hacks/ai/submodule3.py for g.current_user u (ANON: none), on a
\* table of at most `cap` rows
SaveScore(cap) ==
    \E u \in Users \cup {ANON}, play \in Plays, now \in {clock, clock + 1} :
        /\ Room(u, play, now, cap)
        /\ IF ~play.has_score
           THEN /\ resp' = BoardAnswer("save_score", u, 400, "Missing required field: score", "absent")
                /\ UNCHANGED <<boardVars, badges>>
           ELSE IF u = ANON
           THEN /\ resp' = BoardAnswer("save_score", u, 401, "Login required to save scores", "absent")
                /\ UNCHANGED <<boardVars, badges>>
           ELSE LET c == create(leaderboard, u, play, now) IN
                /\ \/ c.created /\ Written(c.rows, now)
                   \/ ~c.created /\ UNCHANGED boardVars
                /\ LET top_entries == get_top_scores(c.rows, ranking', TOP_N)
                       top_10_uids == {top_entries[i].user_id : i \in 1..Len(top_entries)}
                       r == IF u \in top_10_uids
                            THEN add_badge(badges, u, GENIUS)
                            ELSE [badges |-> badges, was_awarded |-> FALSE] IN
                   /\ badges' = r.badges
                   /\ resp' = BoardAnswer("save_score", u, 200, "",
                                          IF r.was_awarded THEN "True" ELSE "False")
        /\ UNCHANGED <<ledgerVars, completions, posted, raceVars, extVars>>

save_score == SaveScore(MaxRows)

\* create_leaderboard_entry of api/admin_api.py for body user_id u (ANON: none)
create_leaderboard_entry ==
    \E u \in Users \cup {ANON}, play \in {p \in Plays : p.has_score},
       now \in {clock, clock + 1} :
        /\ Room(u, play, now, MaxRows)
        /\ IF u = ANON
           THEN /\ resp' = BoardAnswer("create_leaderboard_entry", u, 400,
                                       "user_id or valid uid is required", "absent")
                /\ UNCHANGED boardVars
           ELSE LET c == create(leaderboard, u, play, now) IN
                /\ \/ c.created /\ Written(c.rows, now)
                   \/ ~c.created /\ UNCHANGED boardVars
                /\ resp' = BoardAnswer("create_leaderboard_entry", u, 201, "", "absent")
        /\ UNCHANGED <<ledgerVars, awardVars, raceVars, extVars>>

\* the JSON bodies of a PUT /leaderboard/<id>: the fields present and their values
UpdateBodies == {[fields |-> {"score"}, user_id |-> "", score |-> 80, correctAnswers |-> 0],
                 [fields |-> {"user_id"}, user_id |-> "bob", score |-> 0, correctAnswers |-> 0],
                 [fields |-> {"score", "correctAnswers"}, user_id |-> "", score |-> 100,
                  correctAnswers |-> 10]}

\* the ids a request path may name: those of the table and one past them
PathIds == 1..(MaxRows + 1)

HasId(rows, id) == \E i \in 1..Len(rows) : rows[i].id = id

\* the assignments update_leaderboard_entry makes to the entry it found
updated(row, data) ==
    [row EXCEPT !.user_id = IF "user_id" \in data.fields THEN data.user_id ELSE @,
                !.score = IF "score" \in data.fields THEN data.score ELSE @,
                !.correct_answers = IF "correctAnswers" \in data.fields
                                    THEN data.correctAnswers ELSE @]

\* update_leaderboard_entry of api/admin_api.py
update_leaderboard_entry ==
    \E id \in PathIds, data \in UpdateBodies :
        /\ IF ~HasId(leaderboard, id)
           THEN /\ resp' = BoardAnswer("update_leaderboard_entry", "", 404, "Not Found", "absent")
                /\ UNCHANGED boardVars
           ELSE /\ Written([i \in 1..Len(leaderboard) |->
                               IF leaderboard[i].id = id
                               THEN updated(leaderboard[i], data) ELSE leaderboard[i]], clock)
                /\ resp' = BoardAnswer("update_leaderboard_entry", "", 200, "", "absent")
        /\ UNCHANGED <<ledgerVars, awardVars, raceVars, extVars>>

\* LeaderboardEntry.delete(): the table without the row
delete(rows, id) == SelectSeq(rows, LAMBDA r : r.id # id)

\* delete_leaderboard_entry of api/admin_api.py
delete_leaderboard_entry ==
    \E id \in PathIds :
        /\ IF ~HasId(leaderboard, id)
           THEN /\ resp' = BoardAnswer("delete_leaderboard_entry", "", 404, "Not Found", "absent")
                /\ UNCHANGED boardVars
           ELSE /\ Written(delete(leaderboard, id), clock)
                /\ resp' = BoardAnswer("delete_leaderboard_entry", "", 200, "", "absent")
        /\ UNCHANGED <<ledgerVars, awardVars, raceVars, extVars>>

\* a read of the ranking: get_top_scores(limit), as get_leaderboard does with 10
query_top_scores ==
    \E limit \in (0..MaxLimit) \cup {TOP_N} :
        /\ top_result' = [limit |-> limit, rows |-> get_top_scores(leaderboard, ranking, limit)]
        /\ resp' = BoardAnswer("get_top_scores", "", 200, "", "absent")
        /\ UNCHANGED <<leaderboard, clock, ranking, ledgerVars, awardVars, raceVars, extVars>>

----------------------------------------------------------------------------
(* Two award requests in flight: each database statement is one step *)

Workers == {1, 2}
NoRequest == [op |-> "none", user |-> "", badge |-> ""]
RaceInputs == {PERFECT, PRODIGY, BOGUS}

\* the tables a race may start from: empty, or alice holding one prerequisite
RaceTables == {NoRows, [NoRows EXCEPT ![<<"alice", DELIGHTFUL>>] = 1]}

Finish(w, ans) ==
    /\ rresp' = [rresp EXCEPT ![w] = ans]
    /\ pc' = [pc EXCEPT ![w] = "done"]

\* a request arrives at a worker
race_begin(w) ==
    /\ pc[w] = "idle"
    /\ \E op \in {"award_badge", "create_user_badge"}, u \in Users, b \in RaceInputs :
           /\ req' = [req EXCEPT ![w] = [op |-> op, user |-> u, badge |-> b]]
           /\ pc' = [pc EXCEPT ![w] = IF op = "award_badge" THEN "award_insert"
                                                            ELSE "admin_lookup"]
    /\ UNCHANGED <<ledgerVars, awardVars, resp, snap, rresp, boardVars, extVars>>

\* BadgeService.award_badge up to the commit of its INSERT
race_award_insert(w) ==
    /\ pc[w] = "award_insert"
    /\ LET u == req[w].user
           b == req[w].badge IN
       IF b \notin BADGES
       THEN Finish(w, SvcInvalid(u, b)) /\ UNCHANGED user_badges
       ELSE IF IntegrityError(user_badges, u, b)
       THEN Finish(w, SvcAlready(u, b)) /\ UNCHANGED user_badges
       ELSE /\ user_badges' = InsertRow(user_badges, u, b)
            /\ pc' = [pc EXCEPT ![w] = "quest_read"]
            /\ UNCHANGED rresp
    /\ UNCHANGED <<junction, awardVars, resp, req, snap, boardVars, extVars>>

\* _check_quest_completion: get_user_badges(username)
race_quest_read(w) ==
    /\ pc[w] = "quest_read"
    /\ snap' = [snap EXCEPT ![w] = get_user_badges(user_badges, req[w].user)]
    /\ pc' = [pc EXCEPT ![w] = "quest_insert"]
    /\ UNCHANGED <<ledgerVars, awardVars, resp, req, rresp, boardVars, extVars>>

\* _check_quest_completion: the INSERT of the quest badge, then award_badge returns
race_quest_insert(w) ==
    /\ pc[w] = "quest_insert"
    /\ user_badges' = quest_insert(user_badges, req[w].user, snap[w])
    /\ Finish(w, SvcAwarded(req[w].user, req[w].badge))
    /\ UNCHANGED <<junction, awardVars, resp, req, snap, boardVars, extVars>>

\* create_user_badge up to the read of `exists`
race_admin_lookup(w) ==
    /\ pc[w] = "admin_lookup"
    /\ LET u == req[w].user
           b == req[w].badge
           early == admin_lookup("create_user_badge", u, b) IN
       IF early # NoAnswer THEN Finish(w, early)
       ELSE IF MappingExists(junction, u, b) THEN Finish(w, AdmExists(u, b))
       ELSE pc' = [pc EXCEPT ![w] = "admin_insert"] /\ UNCHANGED rresp
    /\ UNCHANGED <<ledgerVars, awardVars, resp, req, snap, boardVars, extVars>>

\* create_user_badge: ub.create() and the answer
race_admin_insert(w) ==
    /\ pc[w] = "admin_insert"
    /\ LET r == admin_insert(junction, req[w].user, req[w].badge) IN
       /\ junction' = r.tbl
       /\ Finish(w, r.ans)
    /\ UNCHANGED <<user_badges, awardVars, resp, req, snap, boardVars, extVars>>

----------------------------------------------------------------------------
(* Survey: hacks/ai/submodule1.py, submodule1.py, app.py over survey_data.json *)

MaxSurveys == 2
MaxFrqs == 4
RECENT == 3
ABSENT == "<absent>"

Subjects == <<"english", "math", "science", "cs", "history">>
Tools == {"ChatGPT", "Claude", "Gemini", "Copilot"}
required_fields == Subjects \o <<"useAI", "frq">>
TallyKeys == {"english", "math", "science", "cs", "history", "useAI"}
Options(k) == IF k = "useAI" THEN {"Yes", "No"} ELSE Tools

\* load_data() when the file does not exist, and what reset_survey saves
EmptySurvey ==
    [tally |-> [k \in TallyKeys |-> [o \in Options(k) |-> 0]], frqs |-> <<>>]

NoFrqs == <<[text |-> "<none>", timestamp |-> -1]>>

\* request.json of a submission: a value per key, ABSENT for a key not sent
Form1 == [english |-> "ChatGPT", math |-> "Claude", science |-> "Gemini", cs |-> "Copilot",
          history |-> "ChatGPT", useAI |-> "Yes", frq |-> "test opinion"]
Form2 == [english |-> "Claude", math |-> "Claude", science |-> "Claude", cs |-> "Claude",
          history |-> "Claude", useAI |-> "No", frq |-> "second opinion"]
Forms ==
    {Form1, Form2, [Form1 EXCEPT !.english = "Bard"]}
    \cup {[Form1 EXCEPT ![required_fields[i]] = v] : i \in 1..Len(required_fields),
                                                    v \in {ABSENT, ""}}

\* `field not in form_data or not form_data[field]` is false
Present(form, field) == form[field] # ABSENT /\ form[field] # ""

\* the field the validation loop stops at, "" when it runs through
first_missing(form) ==
    LET missing == {i \in 1..Len(required_fields) : ~Present(form, required_fields[i])} IN
    IF missing = {} THEN ""
    ELSE required_fields[CHOOSE i \in missing : \A j \in missing : i <= j]

\* data[key][form_data[key]] += 1 or form_data['frq'] raises KeyError
KeyError(form) ==
    \/ \E k \in TallyKeys : form[k] \notin Options(k)
    \/ form.frq = ABSENT

\* the six increments and frqs.insert(0, frq_entry)
record_no_flag(data, form, now) ==
    [tally |-> [k \in TallyKeys |->
                   IF k = "useAI" THEN data.tally[k]
                   ELSE [data.tally[k] EXCEPT ![form[k]] = @ + 1]],
     frqs |-> <<[text |-> form.frq, timestamp |-> now]>> \o data.frqs]
record(data, form, now) ==
    [tally |-> [k \in TallyKeys |-> [data.tally[k] EXCEPT ![form[k]] = @ + 1]],
     frqs |-> <<[text |-> form.frq, timestamp |-> now]>> \o data.frqs]

SurveyAnswer(op, u, status, error) ==
    Answer(op, u, "", status, "absent", error, "absent")

\* the file has room for one more opinion (the model's bound)
SurveyRoom(now, cap) == Len(survey_data.frqs) < cap /\ now <= cap

\* who may call: the handlers look at no identity
Callers == {"alice", ANON}

\* submit_survey for a caller u; `validates`: the handler has the required_fields
\* loop and the try/except (hacks/ai/submodule1.py, submodule1.py), or neither
\* (app.py); the file holds at most `cap` opinions
SubmitSurvey(op, validates, forms, cap) ==
    \E u \in Callers, form \in forms :
        /\ posted_form' = form
        /\ IF validates /\ first_missing(form) # ""
           THEN /\ resp' = SurveyAnswer(op, u, 400,
                                        "Missing required field: " \o first_missing(form))
                /\ UNCHANGED <<surveyVars, clock>>
           ELSE IF KeyError(form)
           THEN /\ resp' = SurveyAnswer(op, u, 500,
                                        IF validates THEN "KeyError" ELSE "Internal Server Error")
                /\ UNCHANGED <<surveyVars, clock>>
           ELSE \E now \in {clock, clock + 1} :
                /\ SurveyRoom(now, cap)
                /\ survey_data' = record(survey_data, form, now)
                /\ submitted' = Append(submitted, [text |-> form.frq, timestamp |-> now])
                /\ recent_frqs' = NoFrqs
                /\ clock' = now
                /\ resp' = SurveyAnswer(op, u, 200, "")
        /\ UNCHANGED <<ledgerVars, awardVars, raceVars, leaderboard, ranking, top_result,
                       dbVars, qVars, fbVars, promptVars, fileVars, csVars, prefVars, loadVars, progressVars>>

submit_survey_hacks == SubmitSurvey("hacks/ai/submodule1.submit_survey", TRUE, Forms, MaxSurveys)
submit_survey == SubmitSurvey("submodule1.submit_survey", TRUE, Forms, MaxSurveys)
submit_survey_app == SubmitSurvey("app.submit_survey", FALSE, Forms, MaxSurveys)

\* submissions to submodule1.py that differ in the opinion only
OpinionForms == {Form1, Form2, [Form1 EXCEPT !.frq = ""]}
submit_opinion == SubmitSurvey("submodule1.submit_survey", TRUE, OpinionForms, MaxFrqs)

\* data['frqs'][:3]
get_recent_frqs_all(data) == data.frqs
get_recent_frqs(data) == SubSeq(data.frqs, 1, Min(RECENT, Len(data.frqs)))

\* GET /api/survey/recent-frqs of submodule1.py
recent_frqs_get ==
    /\ recent_frqs' = get_recent_frqs(survey_data)
    /\ resp' = SurveyAnswer("get_recent_frqs", "", 200, "")
    /\ UNCHANGED <<survey_data, submitted, posted_form, ledgerVars, awardVars, raceVars,
                   boardVars, dbVars, qVars, fbVars, promptVars, fileVars, csVars, prefVars, loadVars, progressVars>>

\* reset_survey of submodule1.py
reset_survey ==
    /\ survey_data' = EmptySurvey
    /\ submitted' = <<>>
    /\ recent_frqs' = NoFrqs
    /\ resp' = SurveyAnswer("reset_survey", "", 200, "")
    /\ UNCHANGED <<posted_form, ledgerVars, awardVars, raceVars, boardVars,
                   dbVars, qVars, fbVars, promptVars, fileVars, csVars, prefVars, loadVars, progressVars>>

----------------------------------------------------------------------------
(* Survey tables: initSurveyResults of model/badge_t.py and of               *)
(* model/survey_results.py, one step per db.session.commit()                 *)

MaxSeed == 2
SubjectSet == {Subjects[i] : i \in 1..Len(Subjects)}

\* the tools random.choices draws from, cut to two
SeedTools == {"ChatGPT", "Claude"}

\* responses_data of model/survey_results.py, cut to its first two entries
Staged ==
    <<[uses_ai |-> "Yes",
       preferences |-> [english |-> "ChatGPT", math |-> "Claude", science |-> "ChatGPT",
                        cs |-> "Claude", history |-> "Gemini"]],
      [uses_ai |-> "Yes",
       preferences |-> [english |-> "ChatGPT", math |-> "Claude", science |-> "Claude",
                        cs |-> "Gemini", history |-> "Gemini"]]>>

Idle == [pc |-> "idle", variant |-> "", i |-> 0, rid |-> 0, k |-> 0]

\* the number of responses a variant's loop creates
Rounds(variant) == IF variant = "badge_t" THEN MaxSeed ELSE Len(Staged)

NewId(rows) == IF rows = <<>> THEN 1 ELSE rows[Len(rows)].id + 1

\* the preference rows of response rid for the first k subjects, appended
with_preferences(prefs, rid, tool, from, to) ==
    LET RECURSIVE add(_, _)
        add(rows, j) ==
            IF j > to THEN rows
            ELSE add(Append(rows, [id |-> NewId(rows), response_id |-> rid,
                                   subject |-> Subjects[j], ai_tool |-> tool[Subjects[j]]]),
                     j + 1)
    IN add(prefs, from)

\* the loop moves to the next response, or initSurveyResults returns
next_round(sd) ==
    IF sd.i < Rounds(sd.variant)
    THEN [sd EXCEPT !.pc = "response", !.i = sd.i + 1, !.k = 0]
    ELSE [sd EXCEPT !.pc = "done"]

SeedAnswer(op) == Answer(op, "", "", 0, "absent", "", "absent")

\* seed_data or reset_tables reaches initSurveyResults on empty tables
seed_begin ==
    /\ seed.pc = "idle"
    /\ \E variant \in {"badge_t", "survey_results"} :
           seed' = [pc |-> "response", variant |-> variant, i |-> 1, rid |-> 0, k |-> 0]
    /\ resp' = SeedAnswer("initSurveyResults")
    /\ UNCHANGED <<survey_responses, ai_tool_preferences, ledgerVars, awardVars, raceVars,
                   boardVars, surveyVars, posted_form, qVars, fbVars, promptVars, fileVars, csVars, prefVars, loadVars, progressVars>>

\* the response of this round is added and committed
seed_response ==
    /\ seed.pc = "response"
    /\ IF seed.variant = "badge_t"
          /\ \E n \in 1..Len(survey_responses) : survey_responses[n].user_id = seed.i
       THEN /\ seed' = next_round(seed)
            /\ UNCHANGED survey_responses
       ELSE \E uses_ai \in IF seed.variant = "badge_t" THEN {"Yes", "No"}
                           ELSE {Staged[seed.i].uses_ai} :
               /\ survey_responses' =
                      Append(survey_responses, [id |-> NewId(survey_responses),
                                                user_id |-> seed.i, uses_ai |-> uses_ai])
               /\ seed' = [seed EXCEPT !.pc = "preferences",
                                       !.rid = NewId(survey_responses)]
    /\ resp' = SeedAnswer("initSurveyResults")
    /\ UNCHANGED <<ai_tool_preferences, ledgerVars, awardVars, raceVars,
                   boardVars, surveyVars, posted_form, qVars, fbVars, promptVars, fileVars, csVars, prefVars, loadVars, progressVars>>

\* model/badge_t.py: the five preferences are added, then committed together
seed_preferences ==
    /\ seed.pc = "preferences" /\ seed.variant = "badge_t"
    /\ \E tool \in [SubjectSet -> SeedTools] :
           ai_tool_preferences' =
               with_preferences(ai_tool_preferences, seed.rid, tool, 1, Len(Subjects))
    /\ seed' = next_round(seed)
    /\ resp' = SeedAnswer("initSurveyResults")
    /\ UNCHANGED <<survey_responses, ledgerVars, awardVars, raceVars,
                   boardVars, surveyVars, posted_form, qVars, fbVars, promptVars, fileVars, csVars, prefVars, loadVars, progressVars>>

\* model/survey_results.py: preference.create() commits one preference
seed_preference ==
    /\ seed.pc = "preferences" /\ seed.variant = "survey_results"
    /\ ai_tool_preferences' =
           with_preferences(ai_tool_preferences, seed.rid, Staged[seed.i].preferences,
                            seed.k + 1, seed.k + 1)
    /\ seed' = IF seed.k + 1 = Len(Subjects) THEN next_round(seed)
               ELSE [seed EXCEPT !.k = seed.k + 1]
    /\ resp' = SeedAnswer("initSurveyResults")
    /\ UNCHANGED <<survey_responses, ledgerVars, awardVars, raceVars,
                   boardVars, surveyVars, posted_form, qVars, fbVars, promptVars, fileVars, csVars, prefVars, loadVars, progressVars>>

\* the run ends before the preferences are committed: the commit raises, or
\* the process is stopped
seed_fail ==
    /\ seed.pc = "preferences"
    /\ seed' = [seed EXCEPT !.pc = "failed"]
    /\ resp' = SeedAnswer("initSurveyResults")
    /\ UNCHANGED <<survey_responses, ai_tool_preferences, ledgerVars, awardVars, raceVars,
                   boardVars, surveyVars, posted_form, qVars, fbVars, promptVars, fileVars, csVars, prefVars, loadVars, progressVars>>

\* reset_tables drops and recreates both tables before it seeds them
drop_survey_tables ==
    /\ seed.pc \in {"done", "failed"}
    /\ survey_responses' = <<>>
    /\ ai_tool_preferences' = <<>>
    /\ seed' = Idle
    /\ resp' = SeedAnswer("reset_tables")
    /\ UNCHANGED <<ledgerVars, awardVars, raceVars,
                   boardVars, surveyVars, posted_form, qVars, fbVars, promptVars, fileVars, csVars, prefVars, loadVars, progressVars>>

----------------------------------------------------------------------------
(* Questions: model/questions.py, hacks/ai/submodule2.py *)

MaxQuestions == 3
NONE == ""
NoDraw == [count |-> -1, subject |-> NONE, category |-> NONE, rows |-> <<>>]

\* the (subject, category) pairs of the question files
Topics == {<<"science", "biology">>, <<"science", "chemistry">>, <<"math", "derivatives">>}

\* the arguments of a draw: a count, and a subject and a category or none
Counts == 0..(MaxQuestions + 1)
SubjectArgs == {NONE, "science", "math"}
CategoryArgs == {NONE, "biology", "derivatives"}

\* str.lower() on the topics a request may carry
lower(topic) ==
    CASE topic = "Biology" -> "biology"
      [] topic = "CHEMISTRY" -> "chemistry"
      [] OTHER -> topic
TopicArgs == {"Biology", "biology", "CHEMISTRY", "derivatives"}

\* query.filter_by(_subject=subject) if subject, filter_by(_category=category) if category
filter_by_subject(rows, subject, category) ==
    {rows[n] : n \in {m \in 1..Len(rows) : subject # NONE => rows[m].subject = subject}}
filter_by(rows, subject, category) ==
    {rows[n] : n \in {m \in 1..Len(rows) :
                         /\ subject # NONE => rows[m].subject = subject
                         /\ category # NONE => rows[m].category = category}}

\* order_by(func.random()): the rows in any order
RECURSIVE Shuffles(_)
Shuffles(rows) ==
    IF rows = {} THEN {<<>>}
    ELSE UNION {{<<r>> \o rest : rest \in Shuffles(rows \ {r})} : r \in rows}

\* .limit(count)
limit(seq, count) == SubSeq(seq, 1, Min(count, Len(seq)))

\* Question.get_random_questions(count, subject, category): the answers it may give
get_random_questions(rows, count, subject, category) ==
    {limit(order, count) : order \in Shuffles(filter_by(rows, subject, category))}

QuestionAnswer(op) == Answer(op, "", "", 0, "absent", "", "absent")

\* Question(...).create(), as initQuestions does for each entry of the files
create_question ==
    /\ Len(questions) < MaxQuestions
    /\ \E topic \in Topics :
           questions' = Append(questions, [id |-> NewId(questions), subject |-> topic[1],
                                           category |-> topic[2]])
    /\ q_result' = NoDraw
    /\ resp' = QuestionAnswer("Question.create")
    /\ UNCHANGED <<ledgerVars, awardVars, raceVars, boardVars, surveyVars, posted_form,
                   dbVars, fbVars, promptVars, fileVars, csVars, prefVars, loadVars, progressVars>>

\* a call of Question.get_random_questions
draw_questions ==
    /\ \E count \in Counts, subject \in SubjectArgs, category \in CategoryArgs :
           \E rows \in get_random_questions(questions, count, subject, category) :
               q_result' = [count |-> count, subject |-> subject, category |-> category,
                            rows |-> rows]
    /\ resp' = QuestionAnswer("get_random_questions")
    /\ UNCHANGED <<questions, ledgerVars, awardVars, raceVars, boardVars, surveyVars,
                   posted_form, dbVars, fbVars, promptVars, fileVars, csVars, prefVars, loadVars, progressVars>>

\* generate_science_questions(topic, count): one question dict per drawn row
generate_science_questions ==
    /\ \E topic \in TopicArgs, count \in Counts :
           \E rows \in get_random_questions(questions, count, "science", lower(topic)) :
               q_result' = [count |-> count, subject |-> "science",
                            category |-> lower(topic), rows |-> rows]
    /\ resp' = QuestionAnswer("generate_science_questions")
    /\ UNCHANGED <<questions, ledgerVars, awardVars, raceVars, boardVars, surveyVars,
                   posted_form, dbVars, fbVars, promptVars, fileVars, csVars, prefVars, loadVars, progressVars>>


----------------------------------------------------------------------------
(* Feedback: api/submodule3_feedback_api.py, model/submodule_feedback.py,     *)
(* api/admin_api.py                                                          *)

MaxFeedback == 2

\* JSON numbers are kept in tenths: 59 is 5.9
TENTHS == 10

\* the ratings a body may carry: 0, 1, 3, 5, 5.9, 6, 7
RatingArgs == {0, 10, 30, 50, 59, 60, 70}
CategoryNames == {"submodule2", "submodule3", "submodule9"}

\* request.json of a feedback submission
FeedbackBodies ==
    [has_rating : {TRUE}, rating : RatingArgs, category : CategoryNames \cup {ABSENT}]
    \cup {[has_rating |-> FALSE, rating |-> 0, category |-> "submodule3"]}

NoFeedback == [has_rating |-> FALSE, rating |-> 0, category |-> "<none>"]

\* int(x) of a non-negative number: the fraction is cut off
int(x) == x \div TENTHS

\* SubmoduleFeedback.__init__(self, user_id, rating, category, comments=None, timestamp=None)
init_parameters == {"user_id", "rating", "category", "comments", "timestamp"}
init_required == {"user_id", "rating", "category"}

\* a call with these keyword arguments raises TypeError
TypeError(keywords) == ~(keywords \subseteq init_parameters /\ init_required \subseteq keywords)

\* the keyword arguments of the two constructor calls
submit_keywords == {"username", "rating", "category", "comments"}
admin_keywords == {"user_id", "rating", "category", "comments"}

FeedbackAnswer(op, u, status, error) ==
    Answer(op, u, "", status, IF status = 200 THEN "True" ELSE "absent", error, "absent")

\* SubmoduleFeedback.create(): add and commit
feedback_create(rows, who, rating, category) ==
    Append(rows, [id |-> NewId(rows), user |-> who, rating |-> rating, category |-> category])

\* the validation of submit_feedback: the answer it returns early, or NoAnswer
feedback_checks(u, body) ==
    IF ~body.has_rating
    THEN FeedbackAnswer("submit_feedback", u, 400, "Missing required field: rating")
    ELSE IF body.category = ABSENT
    THEN FeedbackAnswer("submit_feedback", u, 400, "Missing required field: category")
    ELSE IF int(body.rating) < 1 \/ int(body.rating) > 5
    THEN FeedbackAnswer("submit_feedback", u, 400, "Rating must be between 1 and 5")
    ELSE IF body.category \notin {"submodule2", "submodule3"}
    THEN FeedbackAnswer("submit_feedback", u, 400, "Category must be submodule2 or submodule3")
    ELSE NoAnswer

\* submit_feedback of api/submodule3_feedback_api.py for g.current_user u (ANON: none)
submit_feedback ==
    \E u \in Users \cup {ANON}, body \in FeedbackBodies :
        /\ feedback_in' = body
        /\ IF feedback_checks(u, body) # NoAnswer
           THEN /\ resp' = feedback_checks(u, body)
                /\ UNCHANGED submodule_feedback
           ELSE IF TypeError(submit_keywords)
           THEN /\ resp' = FeedbackAnswer("submit_feedback", u, 500, "TypeError")
                /\ UNCHANGED submodule_feedback
           ELSE /\ Len(submodule_feedback) < MaxFeedback
                /\ submodule_feedback' =
                       feedback_create(submodule_feedback, u, int(body.rating), body.category)
                /\ resp' = FeedbackAnswer("submit_feedback", u, 200, "")
        /\ UNCHANGED <<ledgerVars, awardVars, raceVars, boardVars, surveyVars, posted_form,
                       dbVars, qVars, promptVars, fileVars, csVars, prefVars, loadVars, progressVars>>

\* the bodies of the admin endpoint: rating and category as given, or the defaults
AdminFeedbackBodies ==
    [has_rating : {TRUE}, rating : {50, 70}, category : {"submodule3", "submodule9"}]
    \cup {[has_rating |-> FALSE, rating |-> 0, category |-> ABSENT]}

\* create_submodule_feedback of api/admin_api.py for body user_id u (ANON: none)
create_submodule_feedback ==
    \E u \in Users \cup {ANON}, body \in AdminFeedbackBodies :
        /\ feedback_in' = body
        /\ IF u = ANON
           THEN /\ resp' = FeedbackAnswer("create_submodule_feedback", u, 400,
                                          "user_id or valid uid is required")
                /\ UNCHANGED submodule_feedback
           ELSE IF TypeError(admin_keywords)
           THEN /\ resp' = FeedbackAnswer("create_submodule_feedback", u, 500, "TypeError")
                /\ UNCHANGED submodule_feedback
           ELSE /\ Len(submodule_feedback) < MaxFeedback
                /\ submodule_feedback' =
                       feedback_create(submodule_feedback, u,
                                       IF body.has_rating THEN body.rating \div TENTHS ELSE 3,
                                       IF body.category = ABSENT THEN "submodule2"
                                       ELSE body.category)
                /\ resp' = FeedbackAnswer("create_submodule_feedback", u, 201, "")
        /\ UNCHANGED <<ledgerVars, awardVars, raceVars, boardVars, surveyVars, posted_form,
                       dbVars, qVars, promptVars, fileVars, csVars, prefVars, loadVars, progressVars>>

\* the bodies of a PUT /submodule-feedback/<id>: the fields present and their values
FeedbackUpdates == {[fields |-> {"rating"}, rating |-> 40, category |-> ABSENT],
                    [fields |-> {"rating"}, rating |-> 90, category |-> ABSENT],
                    [fields |-> {"category"}, rating |-> 0, category |-> "general"],
                    [fields |-> {"rating", "category"}, rating |-> 20, category |-> "submodule3"]}

\* the assignments update_submodule_feedback makes to the entry it found
feedback_updated(row, data) ==
    [row EXCEPT !.rating = IF "rating" \in data.fields THEN data.rating \div TENTHS ELSE @,
                !.category = IF "category" \in data.fields THEN data.category ELSE @]

\* update_submodule_feedback of api/admin_api.py
update_submodule_feedback ==
    \E id \in 1..(MaxFeedback + 1), data \in FeedbackUpdates :
        /\ feedback_in' = [has_rating |-> "rating" \in data.fields, rating |-> data.rating,
                           category |-> data.category]
        /\ IF ~HasId(submodule_feedback, id)
           THEN /\ resp' = FeedbackAnswer("update_submodule_feedback", "", 404, "Not Found")
                /\ UNCHANGED submodule_feedback
           ELSE /\ submodule_feedback' =
                       [i \in 1..Len(submodule_feedback) |->
                           IF submodule_feedback[i].id = id
                           THEN feedback_updated(submodule_feedback[i], data)
                           ELSE submodule_feedback[i]]
                /\ resp' = FeedbackAnswer("update_submodule_feedback", "", 200, "")
        /\ UNCHANGED <<ledgerVars, awardVars, raceVars, boardVars, surveyVars, posted_form,
                       dbVars, qVars, promptVars, fileVars, csVars, prefVars, loadVars, progressVars>>

----------------------------------------------------------------------------
(* Text generation: api/gemini_api.py, hacks/ai/submodule2.py over             *)
(* prompt_data.json                                                          *)

MaxPrompts == 2

\* load_prompt_data() when the file does not exist
EmptyPrompts ==
    [prompt_history |-> <<>>,
     stats |-> [total_prompts |-> 0, good_prompts |-> 0, bad_prompts |-> 0]]

NoPrompt == [prompt |-> "<none>", type |-> "<none>", outcome |-> "none"]

\* what requests.post may do: answer 200 with the text, answer another status,
\* raise, or answer 200 with a body that is not JSON, has no 'candidates', has
\* an empty list of them, or has null for them
Statuses == {"503", "429", "400", "404"}
Raised == {"Timeout", "ConnectionError"}
Malformed == {"not_json", "no_candidates", "empty_candidates", "null_candidates"}
Outcomes == {"ok"} \cup Statuses \cup Raised \cup Malformed

\* the exception response.json() or the extraction of the text raises
extraction_raises(outcome) ==
    CASE outcome = "not_json" -> "JSONDecodeError"
      [] outcome = "no_candidates" -> "KeyError"
      [] outcome = "empty_candidates" -> "IndexError"
      [] outcome = "null_candidates" -> "TypeError"
      [] OTHER -> ""

PromptAnswer(op, u, status, success, error, new_badge) ==
    Answer(op, u, "", status, success, error, new_badge)

\* GeminiAPI._Ask.post from requests.post on: the status and the payload it returns
ask_post(u, outcome) ==
    IF outcome \in Raised
    THEN PromptAnswer("gemini_ask", u, 500, "absent",
                      "Error communicating with Gemini API: " \o outcome, "absent")
    ELSE IF outcome = "503"
    THEN PromptAnswer("gemini_ask", u, 503, "absent",
                      "Gemini API is temporarily unavailable (503). Please try again later.",
                      "absent")
    ELSE IF outcome = "429"
    THEN PromptAnswer("gemini_ask", u, 429, "absent",
                      "Rate limit exceeded. Please try again later.", "absent")
    ELSE IF outcome = "400"
    THEN PromptAnswer("gemini_ask", u, 400, "absent",
                      "Bad request to Gemini API. Please check your input.", "absent")
    ELSE IF outcome \in Statuses
    THEN PromptAnswer("gemini_ask", u, 500, "absent", "Gemini API error: " \o outcome, "absent")
    ELSE IF extraction_raises(outcome) = "JSONDecodeError"
    THEN PromptAnswer("gemini_ask", u, 500, "absent",
                      "Error communicating with Gemini API: JSONDecodeError", "absent")
    ELSE IF extraction_raises(outcome) \in {"KeyError", "IndexError"}
    THEN PromptAnswer("gemini_ask", u, 500, "False", "Error parsing Gemini API response",
                      "absent")
    ELSE IF extraction_raises(outcome) # ""
    THEN PromptAnswer("gemini_ask", u, 500, "absent",
                      "Unexpected error: " \o extraction_raises(outcome), "absent")
    ELSE PromptAnswer("gemini_ask", u, 200, "True", "", "absent")

\* POST to GeminiAPI._Ask with a text, the key and the server configured
gemini_ask ==
    \E u \in Users \cup {ANON}, outcome \in Outcomes :
        /\ prompt_in' = [prompt |-> "text", type |-> "<none>", outcome |-> outcome]
        /\ resp' = ask_post(u, outcome)
        /\ UNCHANGED <<prompt_data, ledgerVars, awardVars, raceVars, boardVars, surveyVars,
                       posted_form, dbVars, qVars, fbVars, fileVars, csVars, prefVars, loadVars, progressVars>>

\* generate_simulated_response(prompt, prompt_type): the string it returns
generate_simulated_response(outcome) ==
    IF outcome \in Raised THEN "Error: Could not generate response. " \o outcome
    ELSE IF outcome \in Statuses THEN "Error: Gemini API returned status " \o outcome
    ELSE IF extraction_raises(outcome) # ""
    THEN "Error: Could not generate response. " \o extraction_raises(outcome)
    ELSE "generated text"

\* str.strip() on the prompts a body may carry
strip(prompt) ==
    CASE prompt = "  " -> ""
      [] prompt = " hi " -> "hi"
      [] OTHER -> prompt

\* the bodies of POST /test: a prompt and a type, ABSENT for a key not sent
PromptArgs == {ABSENT, "", "  ", " hi "}
TypeArgs == {"good", "bad", ABSENT}

\* data.get('prompt', '').strip() and data.get('type', 'unknown')
prompt_of(body) == strip(IF body.prompt = ABSENT THEN "" ELSE body.prompt)
type_of(body) == IF body.type = ABSENT THEN "unknown" ELSE body.type

\* the history entry and the counters of one tested prompt
logged_twice(data, u, prompt, type, response) ==
    [prompt_history |-> data.prompt_history \o
         <<[prompt |-> prompt, type |-> type, response |-> response, user_id |-> u],
           [prompt |-> prompt, type |-> type, response |-> response, user_id |-> u]>>,
     stats |-> [data.stats EXCEPT !.total_prompts = @ + 1]]
logged(data, u, prompt, type, response) ==
    [prompt_history |-> Append(data.prompt_history,
                               [prompt |-> prompt, type |-> type, response |-> response,
                                user_id |-> u]),
     stats |-> [total_prompts |-> data.stats.total_prompts + 1,
                good_prompts |-> data.stats.good_prompts + (IF type = "good" THEN 1 ELSE 0),
                bad_prompts |-> data.stats.bad_prompts + (IF type = "bad" THEN 1 ELSE 0)]]

\* test_prompt of hacks/ai/submodule2.py for g.current_user u (ANON: none), the
\* text-generation call ending in one of `outcomes`, on a history of at most `cap`
TestPrompt(types, outcomes, cap) ==
    \E u \in Callers, prompt \in PromptArgs, type \in types :
        LET body == [prompt |-> prompt, type |-> type] IN
        IF prompt_of(body) = ""
        THEN /\ prompt_in' = [prompt |-> prompt, type |-> type, outcome |-> "none"]
             /\ resp' = PromptAnswer("test_prompt", u, 400, "absent", "Prompt is required",
                                     "absent")
             /\ UNCHANGED <<prompt_data, ledgerVars, awardVars, raceVars, boardVars,
                            surveyVars, posted_form, dbVars, qVars, fbVars, fileVars, csVars, prefVars, loadVars, progressVars>>
        ELSE \E outcome \in outcomes :
             /\ Len(prompt_data.prompt_history) < cap
             /\ prompt_in' = [prompt |-> prompt, type |-> type, outcome |-> outcome]
             /\ prompt_data' = logged(prompt_data, IF u = ANON THEN "anonymous" ELSE u,
                                      prompt_of(body), type_of(body),
                                      generate_simulated_response(outcome))
             /\ LET r == IF type_of(body) = "good" /\ u # ANON
                         THEN add_badge(badges, u, INSTRUCTOR)
                         ELSE [badges |-> badges, was_awarded |-> FALSE] IN
                /\ badges' = r.badges
                /\ resp' = PromptAnswer("test_prompt", u, 200, "True", "",
                                        IF r.was_awarded THEN "True" ELSE "False")
             /\ UNCHANGED <<completions, posted, ledgerVars, raceVars, boardVars,
                            surveyVars, posted_form, dbVars, qVars, fbVars, fileVars, csVars, prefVars, loadVars, progressVars>>

test_prompt == TestPrompt(TypeArgs, {"ok", "Timeout"}, MaxPrompts)
test_prompt_upstream == TestPrompt({"good"}, Outcomes, 1)

----------------------------------------------------------------------------
(* Question files: api/math_questions_api.py, api/science_questions_api.py,   *)
(* hacks/ai/submodule3.py                                                    *)

MaxFileQuestions == 3

\* QUESTIONS_FILE of the three modules
MATH_FILE == "math_questions.json"
SCIENCE_FILE == "science_questions.json"
GAME_FILE == "game_questions.json"
QuestionFiles == {MATH_FILE, SCIENCE_FILE, GAME_FILE}

\* os.path.exists(QUESTIONS_FILE) is false
NoFile == <<[id |-> 0, category |-> "<no file>"]>>

\* default_questions of each load_questions, cut to its first two entries (the
\* game questions carry a subject where the others carry a category)
default_questions(file) ==
    CASE file = MATH_FILE -> <<[id |-> 1, category |-> "derivatives"],
                               [id |-> 2, category |-> "derivatives"]>>
      [] file = SCIENCE_FILE -> <<[id |-> 1, category |-> "biology"],
                                  [id |-> 2, category |-> "physics"]>>
      [] file = GAME_FILE -> <<[id |-> 1, category |-> "math"],
                               [id |-> 2, category |-> "cs"]>>

\* load_questions(): the file as it is after the call, which is also what the
\* call returns
load_questions(files, file) ==
    IF files[file] = NoFile THEN [files EXCEPT ![file] = default_questions(file)]
    ELSE files

FileAnswer(op, status, error) ==
    Answer(op, "", "", status, IF status = 200 THEN "True" ELSE "absent", error, "absent")

\* GET /questions of the three modules, with or without a topic
get_questions ==
    \E file \in QuestionFiles, topic \in {NONE, "biology", "derivatives"} :
        /\ question_files' = load_questions(question_files, file)
        /\ resp' = FileAnswer("GET " \o file, 200, "")
        /\ UNCHANGED <<ledgerVars, awardVars, raceVars, boardVars, surveyVars, posted_form,
                       dbVars, qVars, fbVars, promptVars, csVars, prefVars, loadVars, progressVars>>

\* GET /questions/<id> of the math and the science module
get_question ==
    \E file \in {MATH_FILE, SCIENCE_FILE}, question_id \in 1..(MaxFileQuestions + 1) :
        /\ question_files' = load_questions(question_files, file)
        /\ resp' = IF HasId(question_files'[file], question_id)
                   THEN FileAnswer("GET " \o file, 200, "")
                   ELSE FileAnswer("GET " \o file, 404, "Question not found")
        /\ UNCHANGED <<ledgerVars, awardVars, raceVars, boardVars, surveyVars, posted_form,
                       dbVars, qVars, fbVars, promptVars, csVars, prefVars, loadVars, progressVars>>

\* POST /questions of the math and the science module
add_question ==
    \E file \in {MATH_FILE, SCIENCE_FILE}, category \in {ABSENT, "trig", "chemistry"} :
        /\ IF category = ABSENT
           THEN /\ resp' = FileAnswer("POST " \o file, 400, "Missing required field: category")
                /\ UNCHANGED question_files
           ELSE LET data == load_questions(question_files, file) IN
                /\ Len(data[file]) < MaxFileQuestions
                /\ question_files' =
                       [data EXCEPT ![file] = Append(@, [id |-> data[file][Len(data[file])].id + 1,
                                                         category |-> category])]
                /\ resp' = FileAnswer("POST " \o file, 200, "")
        /\ UNCHANGED <<ledgerVars, awardVars, raceVars, boardVars, surveyVars, posted_form,
                       dbVars, qVars, fbVars, promptVars, csVars, prefVars, loadVars, progressVars>>

----------------------------------------------------------------------------
(* Bulk seeding and reset: seed_data and reset_tables of api/admin_api.py     *)

\* User.query.all(): the users the sample rows are made for
SeedUsers == <<"alice", "bob">>

\* random.randint(60, 100), cut to its ends
SeedScores == {60, 100}

\* random.randint(3, 5) and random.choice(categories), cut to two draws
SeedFeedback == {<<3, "submodule2">>, <<5, "submodule3">>}

\* initLeaderboard(): the tables it may leave, one attempt per user (of 1 to 3)
initLeaderboard(rows, now) ==
    IF rows # <<>> THEN {rows}
    ELSE {[i \in 1..Len(SeedUsers) |->
              [id |-> i, user_id |-> SeedUsers[i], score |-> score[i],
               correct_answers |-> score[i] \div 10, timestamp |-> now]] :
          score \in [1..Len(SeedUsers) -> SeedScores]}

\* initSubmoduleFeedback(): the tables it may leave, one entry per user (of 2 to 4)
initSubmoduleFeedback(rows) ==
    IF rows # <<>> THEN {rows}
    ELSE {[i \in 1..Len(SeedUsers) |->
              [id |-> i, user |-> SeedUsers[i], rating |-> draw[i][1],
               category |-> draw[i][2]]] :
          draw \in [1..Len(SeedUsers) -> SeedFeedback]}

\* initSurveyResults() of model/survey_results.py run to its end on empty
\* tables: a response and its five preferences for each staged entry
RECURSIVE staged_preferences(_, _)
staged_preferences(prefs, i) ==
    IF i > Len(Staged) THEN prefs
    ELSE staged_preferences(with_preferences(prefs, i, Staged[i].preferences,
                                             1, Len(Subjects)), i + 1)
initSurveyResults ==
    [responses |-> [i \in 1..Len(Staged) |->
                       [id |-> i, user_id |-> i, uses_ai |-> Staged[i].uses_ai]],
     preferences |-> staged_preferences(<<>>, 1)]

\* the rows initQuestions makes of one file
file_rows(files, file, subject) ==
    IF files[file] = NoFile THEN <<>>
    ELSE [i \in 1..Len(files[file]) |-> [subject |-> subject,
                                         category |-> files[file][i].category]]

\* initQuestions(): a row per entry of math_questions.json and of
\* science_questions.json, where the file exists
initQuestions(files) ==
    LET entries == file_rows(files, MATH_FILE, "math") \o
                   file_rows(files, SCIENCE_FILE, "science") IN
    [i \in 1..Len(entries) |->
        [id |-> i, subject |-> entries[i].subject, category |-> entries[i].category]]

\* `if before == 0: init...()`: the table after the guarded call
seed_always(rows, seeded) == seeded
seed_if_empty(rows, seeded) == IF rows = <<>> THEN seeded ELSE rows

\* what a seeding handler leaves of the leaderboard, the questions and the
\* feedback table
Seeded(board, asked, fb) ==
    /\ leaderboard' = board
    /\ IF board = leaderboard THEN UNCHANGED <<ranking, top_result>>
       ELSE ranking' \in Rankings(board) /\ top_result' = NoQuery
    /\ questions' = asked
    /\ q_result' = IF asked = questions THEN q_result ELSE NoDraw
    /\ submodule_feedback' = fb

\* seed_data of api/admin_api.py
seed_data ==
    \E board \in initLeaderboard(leaderboard, clock),
       fb \in initSubmoduleFeedback(submodule_feedback) :
        /\ survey_responses' = seed_if_empty(survey_responses, initSurveyResults.responses)
        /\ ai_tool_preferences' =
               IF survey_responses = <<>>
               THEN ai_tool_preferences \o initSurveyResults.preferences
               ELSE ai_tool_preferences
        /\ Seeded(seed_if_empty(leaderboard, board),
                  seed_if_empty(questions, initQuestions(question_files)),
                  seed_if_empty(submodule_feedback, fb))
        /\ resp' = SeedAnswer("seed_data")
        /\ UNCHANGED <<clock, seed, feedback_in, ledgerVars, awardVars, raceVars, surveyVars,
                       posted_form, promptVars, fileVars, csVars, prefVars, loadVars, progressVars>>

\* reset_tables of api/admin_api.py: the four tables are dropped, recreated and seeded
reset_tables ==
    \E board \in initLeaderboard(<<>>, clock), fb \in initSubmoduleFeedback(<<>>) :
        /\ survey_responses' = initSurveyResults.responses
        /\ ai_tool_preferences' = initSurveyResults.preferences
        /\ Seeded(board, questions, fb)
        /\ resp' = SeedAnswer("reset_tables")
        /\ UNCHANGED <<clock, seed, feedback_in, ledgerVars, awardVars, raceVars, surveyVars,
                       posted_form, promptVars, fileVars, csVars, prefVars, loadVars, progressVars>>

\* delete_submodule_feedback of api/admin_api.py
delete_submodule_feedback ==
    \E id \in 1..(Len(SeedUsers) + 1) :
        /\ IF ~HasId(submodule_feedback, id)
           THEN /\ resp' = FeedbackAnswer("delete_submodule_feedback", "", 404, "Not Found")
                /\ UNCHANGED submodule_feedback
           ELSE /\ submodule_feedback' = delete(submodule_feedback, id)
                /\ resp' = FeedbackAnswer("delete_submodule_feedback", "", 200, "")
        /\ UNCHANGED <<feedback_in, ledgerVars, awardVars, raceVars, boardVars, surveyVars,
                       posted_form, dbVars, qVars, promptVars, fileVars, csVars, prefVars, loadVars, progressVars>>

----------------------------------------------------------------------------
(* Rights: api/cs_prompt_api.py, the badge reads of api/badge.py *)

MaxCsPrompts == 2

\* an Admin beside the two students
STAFF == "admin"
role(u) == IF u = STAFF THEN "Admin" ELSE "User"

NoAccess == [role |-> "<none>", target |-> "<none>"]

RightsAnswer(op, u, status, error) ==
    Answer(op, u, "", status, IF status = 200 THEN "True" ELSE "absent", error, "absent")

\* token_required(): a request without a valid token is answered 401
token_required(op, u) ==
    IF u = ANON THEN RightsAnswer(op, u, 401, "Token is missing") ELSE NoAnswer

\* CSPromptAPI._Create.post for g.current_user u (ANON: none), the prompt given
cs_create ==
    \E u \in Users \cup {ANON} :
        /\ Len(cs_prompts) < MaxCsPrompts
        /\ cs_prompts' = Append(cs_prompts, [id |-> NewId(cs_prompts), user_id |-> u])
        /\ access_in' = [role |-> role(u), target |-> "<new>"]
        /\ shown' = {}
        /\ resp' = RightsAnswer("cs_create", u, 200, "")
        /\ UNCHANGED <<ledgerVars, awardVars, raceVars, boardVars, surveyVars, posted_form,
                       dbVars, qVars, fbVars, promptVars, fileVars, prefVars, loadVars, progressVars>>

\* the check of _Delete.delete: the answer it returns early, or NoAnswer
owner_only(rows, u, prompt_id) ==
    IF ~HasId(rows, prompt_id)
    THEN RightsAnswer("cs_delete", u, 404, "Prompt not found")
    ELSE IF \E i \in 1..Len(rows) : rows[i].id = prompt_id /\ rows[i].user_id # u
    THEN RightsAnswer("cs_delete", u, 403, "Unauthorized")
    ELSE NoAnswer

\* CSPromptAPI._Delete.delete for a caller u (ANON: no token)
cs_delete ==
    \E u \in Users \cup {STAFF, ANON}, prompt_id \in 1..(MaxCsPrompts + 1) :
        /\ access_in' = [role |-> role(u), target |-> ToString(prompt_id)]
        /\ shown' = {}
        /\ IF token_required("cs_delete", u) # NoAnswer
           THEN resp' = token_required("cs_delete", u) /\ UNCHANGED cs_prompts
           ELSE IF owner_only(cs_prompts, u, prompt_id) # NoAnswer
           THEN resp' = owner_only(cs_prompts, u, prompt_id) /\ UNCHANGED cs_prompts
           ELSE /\ cs_prompts' = delete(cs_prompts, prompt_id)
                /\ resp' = RightsAnswer("cs_delete", u, 200, "")
        /\ UNCHANGED <<ledgerVars, awardVars, raceVars, boardVars, surveyVars, posted_form,
                       dbVars, qVars, fbVars, promptVars, fileVars, prefVars, loadVars, progressVars>>

\* user.badges with the definitions looked up
badges_of(uid) == {<<uid, b>> : b \in {k \in BADGE_DEFINITIONS : badges[<<uid, k>>] >= 1}}

\* get_user_badges of api/badge.py for a caller u (ANON: no token) and a uid
get_user_badges_api ==
    \E u \in Users \cup {STAFF, ANON}, uid \in Users \cup {"nobody"} :
        /\ access_in' = [role |-> role(u), target |-> uid]
        /\ IF token_required("get_user_badges", u) # NoAnswer
           THEN resp' = token_required("get_user_badges", u) /\ shown' = {}
           ELSE IF role(u) # "Admin" /\ u # uid
           THEN /\ resp' = RightsAnswer("get_user_badges", u, 403, "Permission denied")
                /\ shown' = {}
           ELSE IF uid \notin Users
           THEN /\ resp' = RightsAnswer("get_user_badges", u, 404, "User not found")
                /\ shown' = {}
           ELSE /\ resp' = RightsAnswer("get_user_badges", u, 200, "")
                /\ shown' = badges_of(uid)
        /\ UNCHANGED <<cs_prompts, ledgerVars, awardVars, raceVars, boardVars, surveyVars,
                       posted_form, dbVars, qVars, fbVars, promptVars, fileVars, prefVars, loadVars, progressVars>>

\* get_badge_leaderboard of api/badge.py, which takes no token: the users with
\* a badge, each with the badge list (the first ten of them: all, of two users)
get_badge_leaderboard ==
    \E u \in Users \cup {STAFF, ANON} :
        /\ access_in' = [role |-> role(u), target |-> "<top>"]
        /\ shown' = UNION {badges_of(uid) : uid \in Users}
        /\ resp' = RightsAnswer("get_badge_leaderboard", u, 200, "")
        /\ UNCHANGED <<cs_prompts, ledgerVars, awardVars, raceVars, boardVars, surveyVars,
                       posted_form, dbVars, qVars, fbVars, promptVars, fileVars, prefVars, loadVars, progressVars>>

\* POST /api/badges/award with the id of one badge
api_award_some == ApiAward({DELIGHTFUL})

----------------------------------------------------------------------------
(* Preference updates: update_ai_preferences_by_user of api/admin_api.py,     *)
(* each query and the commit one step                                        *)

\* subjects = ['math', 'english', 'science', 'cs', 'history']
update_subjects == <<"math", "english", "science", "cs", "history">>

NoPrefReq == [pc |-> "idle", user_id |-> 0, body |-> "<none>", rid |-> 0, k |-> 0,
              found |-> {}, added |-> {}]

\* request bodies: the tool for each subject the body names
PrefBodies == {"math", "all"}
names(body, subject) == body = "all" \/ subject = body
tool_in(body) == IF body = "all" THEN "Claude" ELSE "Gemini"

\* the tables a sitting may start from: the first staged response with the
\* first k of its preferences committed (a seeding run that stopped there), or
\* with all five
PrefTables ==
    {[responses |-> <<[id |-> 1, user_id |-> 1, uses_ai |-> Staged[1].uses_ai]>>,
      preferences |-> with_preferences(<<>>, 1, Staged[1].preferences, 1, k)] :
     k \in {0, 2, Len(Subjects)}}

\* the request arrives and SurveyResponse.query.filter_by(user_id=user_id).first() runs
pref_begin(w) ==
    /\ pref_req[w].pc \in {"idle", "done"}
    /\ \E user_id \in {1, 2}, body \in PrefBodies :
           LET found == {n \in 1..Len(survey_responses) :
                             survey_responses[n].user_id = user_id} IN
           IF found = {}
           THEN /\ pref_req' = [pref_req EXCEPT ![w] = [NoPrefReq EXCEPT !.pc = "done",
                                                                       !.user_id = user_id]]
                /\ resp' = Answer("update_ai_preferences_by_user", ToString(user_id), "", 404,
                                  "absent", "User response not found", "absent")
           ELSE /\ pref_req' = [pref_req EXCEPT ![w] =
                                   [pc |-> "find", user_id |-> user_id, body |-> body,
                                    rid |-> survey_responses[CHOOSE n \in found :
                                                \A m \in found : n <= m].id,
                                    k |-> 1, found |-> {}, added |-> {}]]
                /\ UNCHANGED resp
    /\ UNCHANGED <<dbVars, ledgerVars, awardVars, raceVars, boardVars, surveyVars, posted_form,
                   qVars, fbVars, promptVars, fileVars, csVars, loadVars, progressVars>>

\* one round of the loop: AIToolPreference.query.filter_by(response_id, _subject).first()
\* sees the committed rows and what this request has added itself
pref_find(w) ==
    /\ pref_req[w].pc = "find"
    /\ LET r == pref_req[w]
           subject == update_subjects[r.k]
           rows == {n \in 1..Len(ai_tool_preferences) :
                        /\ ai_tool_preferences[n].response_id = r.rid
                        /\ ai_tool_preferences[n].subject = subject}
           next == IF r.k = Len(update_subjects) THEN "commit" ELSE "find" IN
       pref_req' = [pref_req EXCEPT ![w] =
           IF ~names(r.body, subject) THEN [r EXCEPT !.k = @ + 1, !.pc = next]
           ELSE IF rows # {}
           THEN [r EXCEPT !.k = @ + 1, !.pc = next,
                          !.found = @ \cup {ai_tool_preferences[CHOOSE n \in rows :
                                                \A m \in rows : n <= m].id}]
           ELSE [r EXCEPT !.k = @ + 1, !.pc = next, !.added = @ \cup {r.k}]]
    /\ UNCHANGED <<resp, dbVars, ledgerVars, awardVars, raceVars, boardVars, surveyVars,
                   posted_form, qVars, fbVars, promptVars, fileVars, csVars, loadVars, progressVars>>

\* the rows of `added`, in the order of the loop, appended
RECURSIVE add_preferences(_, _, _, _)
add_preferences(prefs, r, tool, k) ==
    IF k > Len(update_subjects) THEN prefs
    ELSE add_preferences(IF k \in r.added
                         THEN Append(prefs, [id |-> NewId(prefs), response_id |-> r.rid,
                                             subject |-> update_subjects[k], ai_tool |-> tool])
                         ELSE prefs,
                         r, tool, k + 1)

\* db.session.commit(): the assignments to the rows found and the new rows
pref_commit(w) ==
    /\ pref_req[w].pc = "commit"
    /\ LET r == pref_req[w]
           assigned == [n \in 1..Len(ai_tool_preferences) |->
                           IF ai_tool_preferences[n].id \in r.found
                           THEN [ai_tool_preferences[n] EXCEPT !.ai_tool = tool_in(r.body)]
                           ELSE ai_tool_preferences[n]] IN
       /\ ai_tool_preferences' = add_preferences(assigned, r, tool_in(r.body), 1)
       /\ pref_req' = [pref_req EXCEPT ![w] = [r EXCEPT !.pc = "done"]]
       /\ resp' = Answer("update_ai_preferences_by_user", ToString(r.user_id), "", 200,
                         "absent", "", "absent")
    /\ UNCHANGED <<survey_responses, seed, ledgerVars, awardVars, raceVars, boardVars,
                   surveyVars, posted_form, qVars, fbVars, promptVars, fileVars, csVars, loadVars, progressVars>>

----------------------------------------------------------------------------
(* Concurrent submissions: submit_survey of hacks/ai/submodule1.py, the      *)
(* load_data() and the save_data() of a request each one step                *)

NoSurveyReq == [pc |-> "idle", form |-> Form1, data |-> EmptySurvey]
ValidForms == {Form1, Form2}

\* a valid form arrives, passes the required_fields loop, and load_data() reads the file
survey_load(w) ==
    /\ survey_req[w].pc \in {"idle", "done"}
    /\ Len(submitted) + Cardinality({v \in Workers : survey_req[v].pc = "loaded"}) < MaxSurveys
    /\ \E form \in ValidForms :
           survey_req' = [survey_req EXCEPT ![w] =
                             [pc |-> "loaded", form |-> form, data |-> survey_data]]
    /\ UNCHANGED <<resp, surveyVars, posted_form, ledgerVars, awardVars, raceVars, boardVars,
                   dbVars, qVars, fbVars, promptVars, fileVars, csVars, prefVars, progressVars>>

\* the increments on the loaded data, save_data(data) and the 200
survey_save(w) ==
    /\ survey_req[w].pc = "loaded"
    /\ \E now \in {clock, clock + 1} :
           /\ now <= MaxSurveys
           /\ survey_data' = record(survey_req[w].data, survey_req[w].form, now)
           /\ submitted' = Append(submitted, [text |-> survey_req[w].form.frq, timestamp |-> now])
           /\ clock' = now
    /\ survey_req' = [survey_req EXCEPT ![w] = [@ EXCEPT !.pc = "done"]]
    /\ resp' = SurveyAnswer("hacks/ai/submodule1.submit_survey", ANON, 200, "")
    /\ UNCHANGED <<recent_frqs, posted_form, ledgerVars, awardVars, raceVars, leaderboard,
                   ranking, top_result, dbVars, qVars, fbVars, promptVars, fileVars, csVars,
                   prefVars, progressVars>>

----------------------------------------------------------------------------
(* Progress: BadgeService.get_user_progress of hacks/ai/badge_service.py     *)

\* the keys of every entry of BADGES in hacks/ai/badges_config.py
badge_keys == {"id", "name", "description", "icon", "color"}

NoProgress == [raised |-> FALSE, earned_badges |-> -1, total_badges |-> -1]

\* get_user_progress(username): b['points'] of an earned badge raises KeyError
\* when the entry has no such key; the sum over no badges reads none
get_user_progress(tbl, u) ==
    LET earned == get_user_badges(tbl, u) IN
    IF earned # {} /\ "points" \notin badge_keys
    THEN [raised |-> TRUE, earned_badges |-> -1, total_badges |-> -1]
    ELSE [raised |-> FALSE, earned_badges |-> Cardinality(earned),
          total_badges |-> Cardinality(BADGES)]

service_get_user_progress ==
    \E u \in Users :
        /\ progress' = get_user_progress(user_badges, u)
        /\ resp' = Answer("get_user_progress", u, "", 0, "absent",
                          IF progress'.raised THEN "KeyError" ELSE "", "absent")
        /\ UNCHANGED <<ledgerVars, awardVars, raceVars, boardVars, surveyVars, posted_form,
                       dbVars, qVars, fbVars, promptVars, fileVars, csVars, prefVars, loadVars>>

\* the state of everything but the two survey tables
InitRest ==
    /\ survey_data = EmptySurvey
    /\ submitted = <<>>
    /\ recent_frqs = NoFrqs
    /\ posted_form = Form1
    /\ questions = <<>>
    /\ q_result = NoDraw
    /\ submodule_feedback = <<>>
    /\ feedback_in = NoFeedback
    /\ prompt_data = EmptyPrompts
    /\ prompt_in = NoPrompt
    /\ question_files = [f \in QuestionFiles |-> NoFile]
    /\ cs_prompts = <<>>
    /\ access_in = NoAccess
    /\ shown = {}
    /\ pref_req = [w \in Workers |-> NoPrefReq]
    /\ survey_req = [w \in Workers |-> NoSurveyReq]
    /\ progress = NoProgress

InitExt ==
    /\ survey_responses = <<>>
    /\ ai_tool_preferences = <<>>
    /\ seed = Idle
    /\ InitRest

----------------------------------------------------------------------------
(* Specifications *)

Init ==
    /\ user_badges = NoRows
    /\ junction = NoRows
    /\ badges = NoRows
    /\ completions = NoRows
    /\ posted = {}
    /\ resp = NoAnswer
    /\ pc = [w \in Workers |-> "idle"]
    /\ req = [w \in Workers |-> NoRequest]
    /\ snap = [w \in Workers |-> {}]
    /\ rresp = [w \in Workers |-> NoAnswer]
    /\ leaderboard = <<>>
    /\ clock = 0
    /\ ranking = <<>>
    /\ top_result = NoQuery
    /\ InitExt

NextLedger == service_award_badge \/ create_user_badge \/ delete_user_badge
SpecLedger == Init /\ [][NextLedger]_vars

NextAward == api_award_badge \/ complete_submodule
SpecAward == Init /\ [][NextAward]_vars

InitRace ==
    /\ user_badges \in RaceTables
    /\ junction = NoRows
    /\ badges = NoRows
    /\ completions = NoRows
    /\ posted = {}
    /\ resp = NoAnswer
    /\ pc = [w \in Workers |-> "idle"]
    /\ req = [w \in Workers |-> NoRequest]
    /\ snap = [w \in Workers |-> {}]
    /\ rresp = [w \in Workers |-> NoAnswer]
    /\ leaderboard = <<>>
    /\ clock = 0
    /\ ranking = <<>>
    /\ top_result = NoQuery
    /\ InitExt

NextRace ==
    \E w \in Workers :
        \/ race_begin(w)
        \/ race_award_insert(w)
        \/ race_quest_read(w)
        \/ race_quest_insert(w)
        \/ race_admin_lookup(w)
        \/ race_admin_insert(w)
SpecRace == InitRace /\ [][NextRace]_vars

NextLeaderboard == save_score \/ create_leaderboard_entry \/ query_top_scores
SpecLeaderboard == Init /\ [][NextLeaderboard]_vars

\* a table already holding k plays of score 100 at times 1..k, the first by
\* `first`, the others by bob, as create_leaderboard_entry leaves them
MaxExtra == 1
Played(k, first) ==
    [i \in 1..k |-> [id |-> i, user_id |-> IF i = 1 THEN first ELSE "bob",
                     score |-> 100, correct_answers |-> 10, timestamp |-> i]]
TopTenBoards == {Played(TOP_N - 1, "bob"), Played(TOP_N, "bob"), Played(TOP_N, "alice")}

InitTopTen ==
    /\ user_badges = NoRows
    /\ junction = NoRows
    /\ badges = NoRows
    /\ completions = NoRows
    /\ posted = {}
    /\ resp = NoAnswer
    /\ pc = [w \in Workers |-> "idle"]
    /\ req = [w \in Workers |-> NoRequest]
    /\ snap = [w \in Workers |-> {}]
    /\ rresp = [w \in Workers |-> NoAnswer]
    /\ leaderboard \in TopTenBoards
    /\ clock = Len(leaderboard)
    /\ ranking \in Rankings(leaderboard)
    /\ top_result = NoQuery
    /\ InitExt

save_score_top == SaveScore(TOP_N + MaxExtra)
NextTopTen == save_score_top
SpecTopTen == InitTopTen /\ [][NextTopTen]_vars

NextBoardAdmin ==
    save_score \/ update_leaderboard_entry \/ delete_leaderboard_entry
SpecBoardAdmin == Init /\ [][NextBoardAdmin]_vars

NextSurvey == submit_survey_hacks \/ submit_survey \/ submit_survey_app
SpecSurvey == Init /\ [][NextSurvey]_vars

NextFrqs == submit_opinion \/ recent_frqs_get \/ reset_survey
SpecFrqs == Init /\ [][NextFrqs]_vars

NextSeed ==
    \/ seed_begin
    \/ seed_response
    \/ seed_preferences
    \/ seed_preference
    \/ seed_fail
    \/ drop_survey_tables
SpecSeed == Init /\ [][NextSeed]_vars

NextQuestions == create_question \/ draw_questions \/ generate_science_questions
SpecQuestions == Init /\ [][NextQuestions]_vars

NextFeedback == submit_feedback \/ create_submodule_feedback
SpecFeedback == Init /\ [][NextFeedback]_vars

NextFeedbackAdmin == create_submodule_feedback \/ update_submodule_feedback
SpecFeedbackAdmin == Init /\ [][NextFeedbackAdmin]_vars

NextUpstream == gemini_ask \/ test_prompt_upstream
SpecUpstream == Init /\ [][NextUpstream]_vars

SpecPrompt == Init /\ [][test_prompt]_vars

NextFiles == get_questions \/ get_question \/ add_question
SpecFiles == Init /\ [][NextFiles]_vars

NextSeedData ==
    seed_data \/ reset_tables \/ get_questions \/ delete_leaderboard_entry
        \/ delete_submodule_feedback
SpecSeedData == Init /\ [][NextSeedData]_vars

NextRights ==
    cs_create \/ cs_delete \/ get_user_badges_api \/ get_badge_leaderboard \/ api_award_some
SpecRights == Init /\ [][NextRights]_vars

InitPrefs ==
    /\ user_badges = NoRows
    /\ junction = NoRows
    /\ badges = NoRows
    /\ completions = NoRows
    /\ posted = {}
    /\ resp = NoAnswer
    /\ pc = [w \in Workers |-> "idle"]
    /\ req = [w \in Workers |-> NoRequest]
    /\ snap = [w \in Workers |-> {}]
    /\ rresp = [w \in Workers |-> NoAnswer]
    /\ leaderboard = <<>>
    /\ clock = 0
    /\ ranking = <<>>
    /\ top_result = NoQuery
    /\ \E t \in PrefTables : survey_responses = t.responses
                             /\ ai_tool_preferences = t.preferences
    /\ seed = Idle
    /\ InitRest

NextPrefs == \E w \in Workers : pref_begin(w) \/ pref_find(w) \/ pref_commit(w)
SpecPrefs == InitPrefs /\ [][NextPrefs]_vars

NextConcurrentSurvey == \E w \in Workers : survey_load(w) \/ survey_save(w)
SpecConcurrentSurvey == Init /\ [][NextConcurrentSurvey]_vars

NextProgress == service_award_badge \/ service_get_user_progress
SpecProgress == Init /\ [][NextProgress]_vars

service_award_key == ServiceAward(KeyInputs)
create_user_badge_key == CreateUserBadge(KeyInputs)
api_award_key == ApiAward(KeyInputs)
NextKeys == service_award_key \/ create_user_badge_key \/ api_award_key
SpecKeys == Init /\ [][NextKeys]_vars

----------------------------------------------------------------------------
(* Award ledger: claims *)

held(tbl, u) == get_user_badges(tbl, u)

\* the answers of the three award handlers
AwardOps == {"award_badge", "create_user_badge", "api_award"}

\* C1: after any sequence of award operations each ledger holds at most one row
\* per (user, badge) pair, and a pair that an award call has just answered for,
\* newly or again, has exactly one row.
C1_AtMostOneRowPerPair ==
    /\ \A p \in Pairs : user_badges[p] <= 1 /\ junction[p] <= 1
    /\ (resp.op = "award_badge" /\ resp.badge \in BADGES)
           => user_badges[<<resp.user, resp.badge>>] = 1
    /\ (resp.op = "create_user_badge" /\ resp.status \in {200, 201})
           => junction[<<resp.user, resp.badge>>] = 1

\* a second award of a pair was answered and the pair has one row
C1_Witness ==
    \E u \in Users, b \in BADGES : resp = SvcAlready(u, b) /\ user_badges[<<u, b>>] = 1

\* C2 as stated: the first POST /api/badges/award for a pair answers new_badge
\* true, every later one false, and the tracking data then holds exactly one
\* record for the pair.
C2_FirstPostIsNew ==
    [][(resp'.op = "api_award" /\ resp'.status = 200)
        => /\ resp'.new_badge =
                  (IF <<resp'.user, resp'.badge>> \notin posted THEN "True" ELSE "False")
           /\ completions'[<<resp'.user, resp'.badge>>] = 1]_vars

\* C2 as amended: POST /api/badges/award answers new_badge true exactly when
\* the user did not hold the badge before the call (another endpoint may have
\* awarded it), a completion record is appended on exactly those calls, and the
\* tracking data holds at most one record per pair, none for a badge the user
\* does not hold.
C2_NewIffNotHeld ==
    /\ [][(resp'.op = "api_award" /\ resp'.status = 200)
           => LET p == <<resp'.user, resp'.badge>> IN
              /\ resp'.new_badge = (IF badges[p] = 0 THEN "True" ELSE "False")
              /\ completions' = (IF badges[p] = 0
                                 THEN [completions EXCEPT ![p] = @ + 1]
                                 ELSE completions)]_vars
    /\ [](\A p \in Pairs : completions[p] <= 1 /\ completions[p] <= badges[p])

\* a repeated award of a pair was answered new_badge false, one record stands
C2_Witness ==
    \E u \in Users, b \in BADGE_DEFINITIONS :
        resp = ApiAlready(u, b) /\ completions[<<u, b>>] = 1 /\ badges[<<u, b>>] = 1

\* C3: whenever a user holds all three prerequisite badges in the BadgeService
\* table, the user holds responsible_ai_master in exactly one row.
C3_QuestCompletion ==
    \A u \in Users :
        required_badges \subseteq held(user_badges, u) => user_badges[<<u, MASTER>>] = 1

\* an award of a prerequisite has completed the three and the master row is there
C3_Witness ==
    /\ resp.op = "award_badge" /\ resp.success = "True"
    /\ resp.badge \in required_badges
    /\ required_badges \subseteq held(user_badges, resp.user)
    /\ user_badges[<<resp.user, MASTER>>] = 1

\* C4: a user who holds responsible_ai_master holds all three prerequisites.
C4_PurelyDerived ==
    \A u \in Users :
        user_badges[<<u, MASTER>>] >= 1 => required_badges \subseteq held(user_badges, u)

C6_AlreadyHeldIsSuccess ==
    [][(/\ resp'.user \in Users /\ resp'.badge \in BADGES
        /\ \/ resp'.op = "award_badge" /\ user_badges[<<resp'.user, resp'.badge>>] >= 1
           \/ resp'.op = "create_user_badge" /\ junction[<<resp'.user, resp'.badge>>] >= 1)
        => /\ resp'.success = "True"
           /\ resp'.error = ""
           /\ UNCHANGED ledgerVars]_vars

\* C7: when two award requests for the same (user, badge) pair have interleaved
\* and both are answered, the ledger holds exactly one row for the pair, exactly
\* one request was answered as newly awarded and the other as already awarded.
C7_RaceOneWinner ==
    (/\ pc[1] = "done" /\ pc[2] = "done"
     /\ req[1] = req[2]
     /\ req[1].badge \in BADGES)
    => LET p == <<req[1].user, req[1].badge>>
           tbl == IF req[1].op = "award_badge" THEN user_badges ELSE junction
           newly == {w \in Workers : rresp[w] \in {SvcAwarded(p[1], p[2]), AdmCreated(p[1], p[2])}}
           already == {w \in Workers : rresp[w] \in {SvcAlready(p[1], p[2]), AdmExists(p[1], p[2])}}
       IN /\ tbl[p] = 1
          /\ Cardinality(newly) = 1
          /\ Cardinality(already) = 1

----------------------------------------------------------------------------
(* Leaderboard: claims *)

RowsOf(seq) == {seq[i] : i \in 1..Len(seq)}
Tied(a, b) == a.score = b.score /\ a.timestamp = b.timestamp

C9_TiesByRowId ==
    top_result # NoQuery =>
        LET r == top_result.rows IN
        /\ \A i, j \in 1..Len(r) : (i < j /\ Tied(r[i], r[j])) => r[i].id < r[j].id
        /\ \A x \in RowsOf(leaderboard) \ RowsOf(r), y \in RowsOf(r) :
               Tied(x, y) => y.id < x.id

\* C10: a score submission answered with success (200 by save_score, 201 by
\* create_leaderboard_entry) has appended exactly one row and left every
\* earlier row as it was.
C10_AcceptedAppendsOneRow ==
    [][(resp'.op \in {"save_score", "create_leaderboard_entry"} /\ resp'.status \in {200, 201})
        => /\ Len(leaderboard') = Len(leaderboard) + 1
           /\ SubSeq(leaderboard', 1, Len(leaderboard)) = leaderboard]_vars

----------------------------------------------------------------------------
(* Leaderboard badge: claims *)

\* the attempt a save_score step has just inserted is among the first TOP_N of
\* the ordering the step read
MadeTopTen ==
    /\ Len(leaderboard') = Len(leaderboard) + 1
    /\ \E i \in 1..Min(TOP_N, Len(ranking')) :
           ranking'[i] = leaderboard'[Len(leaderboard')].id

\* C11: a score submission leaves its user holding super_smart_genius if the
\* submitted attempt is among the top 10 at that moment; a submission whose
\* attempt is not among them awards nothing and reports no new badge; the badge
\* is reported new only to a user who did not hold it.
C11_TopTenAward ==
    [][(resp'.op = "save_score" /\ resp'.status = 200) =>
          /\ MadeTopTen => badges'[<<resp'.user, GENIUS>>] = 1
          /\ ~MadeTopTen => (badges' = badges /\ resp'.new_badge = "False")
          /\ resp'.new_badge = "True" => badges[<<resp'.user, GENIUS>>] = 0]_vars

\* C12: a step of any operation other than the admin reset keeps every
\* leaderboard row as it was: same id, user, score, correct-answer count and
\* timestamp.
C12_RowsKept ==
    [][resp'.op # "reset_tables" =>
          \A i \in 1..Len(leaderboard) :
              \E j \in 1..Len(leaderboard') : leaderboard'[j] = leaderboard[i]]_vars

----------------------------------------------------------------------------
(* Survey: claims *)

SurveyOps == {"hacks/ai/submodule1.submit_survey", "submodule1.submit_survey",
              "app.submit_survey"}

\* the subject keys and the useAI flag
RequiredChoices == {required_fields[i] : i \in 1..(Len(required_fields) - 1)}

LacksChoice(form) == \E f \in RequiredChoices : ~Present(form, f)

\* C13: a submission that lacks a value for a subject key or for useAI is
\* answered 400 by every submit handler, with a message naming a field it lacks.
C13_MissingFieldIs400 ==
    (resp.op \in SurveyOps /\ LacksChoice(posted_form)) =>
        /\ resp.status = 400
        /\ \E f \in RequiredChoices :
               ~Present(posted_form, f) /\ resp.error = "Missing required field: " \o f

\* every field has a value and every choice is one of the survey's options
Complete(form) ==
    /\ \A i \in 1..Len(required_fields) : Present(form, required_fields[i])
    /\ \A k \in TallyKeys : form[k] \in Options(k)

C16_RecentNewestFirst ==
    recent_frqs # NoFrqs =>
        /\ Len(recent_frqs) = Min(RECENT, Len(submitted))
        /\ \A i \in 1..Len(recent_frqs) : recent_frqs[i] = submitted[Len(submitted) + 1 - i]

\* four opinions are stored and the answer has the last three
C16_Witness ==
    /\ recent_frqs # NoFrqs
    /\ Len(submitted) > RECENT
    /\ Len(recent_frqs) = RECENT
    /\ recent_frqs[1] # recent_frqs[2]

\* C17: after a stored submission by an identified user that user holds
\* sensational_surveyor exactly once; an anonymous submission awards nothing.
C17_SurveyorAwarded ==
    (resp.op \in SurveyOps /\ resp.status = 200 /\ resp.user # ANON) =>
        \/ badges[<<resp.user, SURVEYOR>>] = 1
        \/ user_badges[<<resp.user, SURVEYOR>>] = 1
        \/ junction[<<resp.user, SURVEYOR>>] = 1

\* the preference rows of a response
PreferencesOf(rid) ==
    {ai_tool_preferences[n] : n \in {m \in 1..Len(ai_tool_preferences) :
                                        ai_tool_preferences[m].response_id = rid}}

\* C15: in every committed state each survey response has its full set of
\* preference rows, one per subject, also after a run that failed partway.
C15_NoOrphanResponse ==
    \A n \in 1..Len(survey_responses) :
        \A subject \in SubjectSet :
            \E pref \in PreferencesOf(survey_responses[n].id) : pref.subject = subject

----------------------------------------------------------------------------
(* Questions: claims *)

\* the rows of the table that have the subject and the category asked for
Matching ==
    {r \in RowsOf(questions) :
        /\ q_result.subject # NONE => r.subject = q_result.subject
        /\ q_result.category # NONE => r.category = q_result.category}

\* C18: get_random_questions(count, subject, category) returns pairwise distinct
\* rows that all match the subject and category, exactly min(count, matching
\* rows) of them, and exactly the matching rows when count is not smaller.
C18_DistinctMatchingMin ==
    q_result # NoDraw =>
        LET rows == q_result.rows IN
        /\ Len(rows) = Min(q_result.count, Cardinality(Matching))
        /\ \A i \in 1..Len(rows) : rows[i] \in Matching
        /\ \A i, j \in 1..Len(rows) : i # j => rows[i].id # rows[j].id
        /\ q_result.count >= Cardinality(Matching) => RowsOf(rows) = Matching

\* three were asked of a category that has two rows, beside a row of another
C18_Witness ==
    /\ q_result # NoDraw
    /\ q_result.count = 3 /\ q_result.category = "biology"
    /\ Len(q_result.rows) = 2
    /\ Len(questions) = 3

----------------------------------------------------------------------------
(* Feedback: claims *)

\* C19: a feedback submission whose rating is below 1 or above 5 is answered
\* 400 and inserts no feedback row.
C19_OutOfRangeIs400 ==
    [][(resp'.op = "submit_feedback" /\ feedback_in'.has_rating
           /\ feedback_in'.category # ABSENT
           /\ (feedback_in'.rating < 1 * TENTHS \/ feedback_in'.rating > 5 * TENTHS)) =>
          /\ resp'.status = 400
          /\ submodule_feedback' = submodule_feedback]_vars

\* C20: a feedback submission with an integer rating in 1..5 and the category
\* submodule2 or submodule3 is answered with success, and one row with that
\* rating and category is appended.
C20_ValidIsStored ==
    [][(resp'.op = "submit_feedback" /\ feedback_in'.has_rating
           /\ feedback_in'.rating \in {n * TENTHS : n \in 1..5}
           /\ feedback_in'.category \in {"submodule2", "submodule3"}) =>
          /\ resp'.status = 200 /\ resp'.success = "True"
          /\ Len(submodule_feedback') = Len(submodule_feedback) + 1
          /\ submodule_feedback'[Len(submodule_feedback')].rating * TENTHS = feedback_in'.rating
          /\ submodule_feedback'[Len(submodule_feedback')].category = feedback_in'.category]_vars

\* C21: every stored feedback entry has a rating from 1 to 5 and the category
\* submodule2 or submodule3, whichever endpoint created or last edited it.
C21_StoredInRange ==
    \A i \in 1..Len(submodule_feedback) :
        /\ submodule_feedback[i].rating \in 1..5
        /\ submodule_feedback[i].category \in {"submodule2", "submodule3"}

----------------------------------------------------------------------------
(* Text generation: claims *)

\* C22: whenever the text-generation call ends with a status other than 200,
\* with a timeout or connection failure, or with a malformed 200 body, the
\* handler that made it answers with an error status and an error message and
\* does not report success.
C22_UpstreamFailureIsError ==
    (resp.op \in {"gemini_ask", "test_prompt"} /\ prompt_in.outcome \in Outcomes \ {"ok"}) =>
        /\ resp.status >= 400
        /\ resp.error # ""
        /\ resp.success # "True"

\* the prompt was accepted: it is non-empty once stripped
Accepted(body) == prompt_of(body) # ""

\* C30 as stated: test_prompt awards intelligent_instructor only to an
\* authenticated caller submitting type 'good'; any other request changes no
\* badges; the history grows by exactly one entry and total_prompts by one for
\* every non-empty prompt.
C30_EveryNonEmptyPrompt ==
    [][resp'.op = "test_prompt" =>
          /\ badges' # badges =>
                 /\ resp'.user # ANON /\ prompt_in'.type = "good"
                 /\ badges' = [badges EXCEPT ![<<resp'.user, INSTRUCTOR>>] = 1]
          /\ prompt_in'.prompt \notin {ABSENT, ""} =>
                 /\ Len(prompt_data'.prompt_history) = Len(prompt_data.prompt_history) + 1
                 /\ prompt_data'.stats.total_prompts = prompt_data.stats.total_prompts + 1]_vars

\* C30 as amended: the same, the history and total_prompts growing by one for
\* every prompt that is non-empty after surrounding whitespace is stripped; a
\* prompt that is absent, empty or whitespace only is answered 400 and changes
\* nothing.
C30_EveryStrippedPrompt ==
    [][resp'.op = "test_prompt" =>
          /\ badges' # badges =>
                 /\ resp'.user # ANON /\ prompt_in'.type = "good"
                 /\ badges' = [badges EXCEPT ![<<resp'.user, INSTRUCTOR>>] = 1]
          /\ Accepted(prompt_in') =>
                 /\ Len(prompt_data'.prompt_history) = Len(prompt_data.prompt_history) + 1
                 /\ SubSeq(prompt_data'.prompt_history, 1, Len(prompt_data.prompt_history))
                        = prompt_data.prompt_history
                 /\ prompt_data'.stats.total_prompts = prompt_data.stats.total_prompts + 1
          /\ ~Accepted(prompt_in') =>
                 /\ resp'.status = 400
                 /\ UNCHANGED <<prompt_data, badges>>]_vars

\* a second good prompt of a user who holds the badge was logged, no badge new
C30_Witness ==
    /\ resp.op = "test_prompt" /\ resp.status = 200 /\ resp.new_badge = "False"
    /\ prompt_in.type = "good" /\ resp.user = "alice"
    /\ badges[<<"alice", INSTRUCTOR>>] = 1
    /\ Len(prompt_data.prompt_history) = 2
    /\ prompt_data.stats.total_prompts = 2

----------------------------------------------------------------------------
(* Seeding and reset: claims *)

\* the explicit admin operations
AdminOps == {"seed_data", "reset_tables"}

\* C23: a step of any handler other than seed-data and reset-tables neither
\* creates a store that was not there, filled with sample data, nor empties one.
C23_NoImplicitSeed ==
    [][resp'.op \notin AdminOps =>
          \A file \in QuestionFiles :
              /\ question_files[file] = NoFile => question_files'[file] = NoFile
              /\ question_files[file] # NoFile => question_files'[file] # NoFile]_vars

\* the tables seed_data looks at
SeedTables == <<survey_responses, ai_tool_preferences, leaderboard, questions,
                submodule_feedback>>

\* C24: seed_data leaves every table that was non-empty before the call as it
\* was, and a seed_data call that directly follows a seed_data call changes no
\* table.
C24_SeedOnlyEmpty ==
    [][resp'.op = "seed_data" =>
          /\ survey_responses # <<>> => survey_responses' = survey_responses
          /\ ai_tool_preferences # <<>> => ai_tool_preferences' = ai_tool_preferences
          /\ leaderboard # <<>> => leaderboard' = leaderboard
          /\ questions # <<>> => questions' = questions
          /\ submodule_feedback # <<>> => submodule_feedback' = submodule_feedback
          /\ resp.op = "seed_data" => SeedTables' = SeedTables]_vars

\* seed_data has filled an emptied feedback table beside a leaderboard that a
\* delete had cut to one row, and beside questions seeded from the files
C24_Witness ==
    /\ resp.op = "seed_data"
    /\ Len(leaderboard) = 1
    /\ Len(submodule_feedback) = Len(SeedUsers)
    /\ Len(questions) = 4
    /\ Len(survey_responses) = Len(Staged)

----------------------------------------------------------------------------
(* Rights: claims *)

\* the stored prompt a delete request names belongs to someone else
NotOwner ==
    \E i \in 1..Len(cs_prompts) :
        /\ ToString(cs_prompts[i].id) = access_in'.target
        /\ cs_prompts[i].user_id # resp'.user

\* C25: a delete of a CS prompt by an authenticated caller who does not own it
\* is answered 403, a prompt disappears only by its owner's delete, a read of
\* another user's badges by an authenticated caller who is not an Admin is
\* answered 403, and an answer discloses another user's badges only to an Admin.
C25_RightsChecked ==
    [][/\ resp'.op = "cs_delete" =>
              /\ (NotOwner /\ resp'.user # ANON) => resp'.status = 403
              /\ NotOwner => cs_prompts' = cs_prompts
              /\ \A i \in 1..Len(cs_prompts) :
                     cs_prompts[i] \notin RowsOf(cs_prompts') =>
                         cs_prompts[i].user_id = resp'.user
       /\ (resp'.op = "get_user_badges" /\ resp'.user # ANON /\ access_in'.role # "Admin"
              /\ access_in'.target # resp'.user) => resp'.status = 403
       /\ \A p \in shown' : p[1] = resp'.user \/ access_in'.role = "Admin"]_vars

----------------------------------------------------------------------------
(* Preference updates: claims *)

\* C26: every survey response has at most one preference row per subject,
\* hence at most five, after any sequence and any interleaving of
\* update_ai_preferences_by_user requests.
C26_OnePreferencePerSubject ==
    \A i, j \in 1..Len(ai_tool_preferences) :
        (/\ ai_tool_preferences[i].response_id = ai_tool_preferences[j].response_id
         /\ ai_tool_preferences[i].subject = ai_tool_preferences[j].subject) => i = j

----------------------------------------------------------------------------
(* Score submission: a failed insert *)

\* C27: save_score answers success only if the row was persisted: a submission
\* that leaves the leaderboard as it was (LeaderboardEntry.create() returned
\* None) is answered with an error and awards no badge.
C27_FailedCreateIsError ==
    [][(resp'.op = "save_score" /\ leaderboard' = leaderboard)
        => (resp'.status # 200 /\ badges' = badges)]_vars

----------------------------------------------------------------------------
(* Concurrent submissions: claims *)

\* the sum of the counts of a tally
RECURSIVE SumOver(_, _)
SumOver(counts, options) ==
    IF options = {} THEN 0
    ELSE LET o == CHOOSE x \in options : TRUE IN counts[o] + SumOver(counts, options \ {o})
Total(k) == SumOver(survey_data.tally[k], Options(k))

\* C28: when concurrently handled valid submissions have all been answered 200,
\* each is in the saved data: every subject's total and the useAI total equal
\* the number of acknowledged submissions and every opinion is stored.
C28_NoAcknowledgedLost ==
    (\A w \in Workers : survey_req[w].pc # "loaded")
        => /\ \A k \in TallyKeys : Total(k) = Len(submitted)
           /\ Len(survey_data.frqs) = Len(submitted)

----------------------------------------------------------------------------
(* Progress: claims *)

\* the number of rows the ledger holds for a user
LedgerRows(u) == SumOver([b \in Keys |-> user_badges[<<u, b>>]], Keys)

\* C29: for every username and ledger state get_user_progress returns without
\* raising, earned_badges is the number of the user's ledger rows, total_badges
\* the size of the catalog, and earned_badges <= total_badges.
C29_ProgressReturned ==
    [][resp'.op = "get_user_progress"
        => /\ ~progress'.raised
           /\ progress'.earned_badges = LedgerRows(resp'.user)
           /\ progress'.total_badges = Cardinality(BADGES)
           /\ progress'.earned_badges <= progress'.total_badges]_vars

====
